---- MODULE Spec2Model ----
(***************************************************************************)
(* Verification model of the emsqrt engine core.                           *)
(*                                                                         *)
(*   Part I   memory budget (emsqrt-mem/src/guard.rs)            SpecBudget *)
(*   Part II  block execution: Engine::run (emsqrt-exec/src/runtime.rs)    *)
(*            and AsyncScheduler::execute_dag (scheduler.rs)       SpecExec *)
(*   Part III spill segments: SpillManager (emsqrt-mem/src/spill/mod.rs),  *)
(*            SegmentHeader (spill/segment.rs)                             *)
(*                                   SpecSpill, SpecSegments, SpecHeader   *)
(*   Part IV  external sort: ExternalSort::eval_block, k_way_merge         *)
(*            (emsqrt-operators/src/sort/external.rs)  SpecSort, SpecMerge *)
(*   Part V   run generation: RunGenerator                                 *)
(*            (emsqrt-operators/src/sort/run.rs)                SpecRunGen *)
(*   Part VI  Engine::run, hashing and the operator table                  *)
(*            (runtime.rs, replay.rs, emsqrt-core/src/manifest.rs) SpecRun *)
(*   Part VII CloudStorage::run_with_retry                                 *)
(*            (emsqrt-io/src/storage/cloud.rs)                   SpecRetry *)
(*   Part VIII parse_yaml_pipeline                                         *)
(*            (emsqrt-planner/src/dsl/yaml.rs)                    SpecYaml *)
(*   Part IX  choose_block_size (emsqrt-te/src/schedule.rs)       SpecSize *)
(*   Part X   Filter (emsqrt-operators/src/filter.rs)           SpecFilter *)
(*   Part XI  WindowOp (emsqrt-operators/src/window/mod.rs)     SpecWindow *)
(*   Part XII LateralExplodeOp (window/mod.rs)                 SpecExplode *)
(*   Part XIII FrontierTracker, compute_max_frontier                       *)
(*            (emsqrt-te/src/frontier.rs)                     SpecFrontier *)
(*   Part XIV Storage::read_range of FsStorage and MemoryStorage           *)
(*            (emsqrt-io/src/storage/fs.rs, memory_storage.rs)   SpecRange *)
(*   Part XV  SpillManager.segments against the files of its storage       *)
(*            (spill/mod.rs, emsqrt-io/src/storage/fs.rs)     SpecSpillDir *)
(*   SpecExecFair is SpecExec under fair scheduling of its tasks.          *)
(***************************************************************************)
EXTENDS Integers, Sequences, FiniteSets, TLC

\* ------------------------------------------------------------------------
\* Bounds
\* ------------------------------------------------------------------------
\* usize::MAX, scaled down; the counter wraps modulo MaxWord + 1
MaxWord == 3
\* number of threads sharing one MemoryBudgetImpl
NThreads == 2
\* number of guard slots that can be live at the same time
NGuards == 2
\* largest number of blocks in a TE plan
MaxBlocks == 3
\* largest number of dependencies of one block
MaxFanIn == 2
\* largest max_parallel_tasks
MaxParallel == 2
\* number of run indices that write_batch is called with
NSegments == 2
\* u32::MAX, scaled down; next_run wraps modulo MaxRun + 1
MaxRun == 2
\* largest number of runs handed to k_way_merge
MaxMergeRuns == 2
\* largest number of calls made on one RunGenerator
MaxGenCalls == 3
\* largest op id of a program
MaxOps == 2

\* largest max_retries of a RetryConfig
MaxRetries == 2

\* longest delay of a RetryConfig, in units of time
MaxBackoff == 3
\* largest number of steps of a pipeline
MaxSteps == 3
\* largest memory cap, in bytes
MaxCapBytes == 12
\* largest row and byte totals of a work estimate
MaxEstimate == 4
\* most rows of a batch handed to the window operator
MaxWindowRows == 3
\* most rows of a batch handed to the lateral explode operator
MaxExplodeRows == 2
\* longest string of a target column
MaxText == 2
\* most edges handed to FrontierTracker::new directly
MaxEdges == 2
\* largest stored object, in bytes
MaxObject == 2

\* number of values of a machine word
Word == MaxWord + 1

Threads == 1..NThreads
Guards == 1..NGuards
Bytes == 0..MaxWord

VARIABLES
    \* ---- Part I: memory budget ----
    capacity,     \* BudgetInner.capacity
    used,         \* BudgetInner.used (AtomicUsize)
    guardLive,    \* guard slot -> a BudgetGuardImpl exists in the slot
    guardBytes,   \* guard slot -> BudgetGuardImpl.bytes
    tpc,          \* thread -> position inside BudgetInner::try_acquire
    top,          \* thread -> locals of the call in progress
    \* ---- Part II: block execution ----
    mode,         \* "engine" (Engine::run), "sched" (execute_dag) or "off"
    order,        \* te.order / blocks: position i holds the deps of block i
    max_parallel, \* AsyncScheduler.max_parallel
    \* Engine::run
    epc,          \* position in the block loop
    ei,           \* index of the block of te.order being processed
    eresults,     \* keys of the results map
    einputs,      \* batches gathered for the current block (by producer)
    eerr,         \* the error Engine::run returned, "none" if none
    manifest,     \* Engine::run returned Ok(manifest)
    estarted,     \* history: blocks whose eval_block has been invoked
    estored,      \* history: blocks whose result has been stored in results
    ehanded,      \* history: block -> times its batch was handed to a consumer
    \* AsyncScheduler::execute_dag
    spc,          \* position of execute_dag itself
    readyQ,       \* contents of the ready channel
    readyOpen,    \* ready_tx has not been dropped
    completeQ,    \* contents of the completion channel
    pending,      \* pending_deps
    sresults,     \* keys of the shared results map
    completed_count,
    lpc,          \* position of the launcher task
    lblock,       \* block the launcher is about to spawn
    permits,      \* permits available in the semaphore
    active_tasks,
    wpc,          \* block -> position of its worker task
    launched,     \* history: block -> times a worker task has been spawned for it
    serr          \* the error execute_dag returned, "none" if none

VARIABLES
    \* ---- Part III: spill segments ----
    codec,        \* SpillManager.codec (0 None, 1 Zstd, 2 Lz4)
    codec_enabled,\* the build has the cargo feature of that codec
    storage,      \* run indices whose segment path exists in the Storage
    segments,     \* keys of SpillManager.segments
    meta,         \* the SegmentMeta of the latest successful write_batch
    segbytes,     \* the bytes the Storage holds at meta.path
    written,      \* history: the batch of the latest successful write_batch
    next_run,     \* SpillManager.next_run (AtomicU32)
    issued,       \* history: the values next_run_index returned, in order
    rres,         \* outcome of the latest read_batch
    dres,         \* outcome of the latest delete_segment
    \* SegmentHeader::from_bytes / validate_sizes
    hbytes,       \* the header bytes handed to from_bytes
    hres          \* outcome of parsing and validating them

spillVars == <<codec, codec_enabled, storage, segments, meta, segbytes, written,
               next_run, issued, rres, dres>>

headerVars == <<hbytes, hres>>

VARIABLES
    \* ---- Part IV: external sort ----
    sort_in,          \* the input batch of ExternalSort::eval_block
    sort_by,          \* ExternalSort.by
    spill_configured, \* ExternalSort.spill_mgr is Some
    sort_out,         \* what eval_block returned
    sort_live,        \* the ExternalSort operator has not been dropped
    \* k_way_merge
    run_batches,      \* the runs as read back, in run order
    mpc,              \* position in k_way_merge
    heap,             \* the entries in the BinaryHeap
    emitted           \* history: the rows appended to the output, in order

sortVars == <<sort_in, sort_by, spill_configured, sort_out, sort_live>>

mergeVars == <<run_batches, mpc, heap, emitted>>

VARIABLES
    generator,        \* Part V: the RunGenerator and the calls made on it
    engine_run,       \* Part VI: the arguments, locals and result of Engine::run
    retry_call,       \* Part VII: a call of CloudStorage::run_with_retry
    yaml_call,        \* Part VIII: a call of parse_yaml_pipeline
    block_size,       \* Part IX: a call of choose_block_size
    filter_call,      \* Part X: a Filter and a call of its eval_block
    window_call       \* Part XI: a WindowOp and a call of its eval_block

\* ---- Part V: the fields of generator ----
\* RunGenerator.accumulator
accumulator == generator.accumulator
\* RunGenerator.accum_rows
accum_rows == generator.accum_rows
\* RunGenerator.max_rows
max_rows == generator.max_rows
\* RunGenerator.runs
gen_runs == generator.gen_runs
\* what the latest add_batch or finalize returned
gen_res == generator.gen_res
\* history: number of calls made on the generator
gen_calls == generator.gen_calls
\* history: the latest call made on the generator
gen_last == generator.gen_last
\* history: number of rows the batches handed to add_batch had
gen_added == generator.gen_added
\* history: a spill write of flush_run has failed
gen_write_failed == generator.gen_write_failed

\* ---- Part VI: the fields of engine_run ----
\* the PhysicalProgram: plan and bindings
rprogram == engine_run.rprogram
\* te.order
rte == engine_run.rte
\* keys the Registry can make
registered == engine_run.registered
\* the clock read by now_millis
rnow == engine_run.rnow
\* position in Engine::run
rpc == engine_run.rpc
\* the plan_hash and te_hash locals
rhash == engine_run.rhash
\* keys of the ops table
rops == engine_run.rops
\* next position of te.order
rblock == engine_run.rblock
\* history: op ids whose eval_block was invoked
revaluated == engine_run.revaluated
\* what Engine::run returned
run_res == engine_run.run_res
\* history: what the previous run returned
rfirst == engine_run.rfirst

\* ---- Part VII: the fields of retry_call ----
\* CloudStorage.retry (RetryConfig)
retry == retry_call.retry
\* the retry_not_found argument
retry_not_found == retry_call.retry_not_found
\* local attempt
attempt == retry_call.attempt
\* local backoff
backoff == retry_call.backoff
\* position in run_with_retry
retry_pc == retry_call.retry_pc
\* history: the result of every invocation of op
op_results == retry_call.op_results
\* history: the delays slept, in order
slept == retry_call.slept
\* what run_with_retry returned
retry_res == retry_call.retry_res

\* ---- Part VIII: the fields of yaml_call ----
\* doc.steps
steps == yaml_call.steps
\* position of the loop in steps
ypos == yaml_call.ypos
\* local cur
ycur == yaml_call.ycur
\* what parse_yaml_pipeline returned
yres == yaml_call.yres

\* ---- Parts IX to XI: arguments and results ----
\* arguments of choose_block_size
bs_in == block_size.bs_in
\* its BlockSizeHint
bs_out == block_size.bs_out
\* Filter.expr and the input batch
f_in == filter_call.f_in
\* what Filter::eval_block returned
f_out == filter_call.f_out
\* the WindowOp and its input batch
w_in == window_call.w_in
\* what WindowOp::eval_block returned
w_out == window_call.w_out

VARIABLES
    \* ---- Part XII: LateralExplodeOp::eval_block ----
    explode_call,
    \* ---- Part XIII: FrontierTracker ----
    tracker,
    \* ---- Part XIV: Storage::read_range ----
    range_call,
    \* ---- Part XV: SpillManager.segments and the files of its storage ----
    spill_dir

\* ---- Part XII: the fields of explode_call ----
\* the LateralExplodeOp and its input batch
x_in == explode_call.x_in
\* what LateralExplodeOp::eval_block returned
x_out == explode_call.x_out

\* ---- Part XIII: the fields of tracker ----
\* the argument of FrontierTracker::new
edges == tracker.edges
\* FrontierTracker.in_degree
in_degree == tracker.in_degree
\* FrontierTracker.ready
ready == tracker.ready
\* FrontierTracker.live
live == tracker.live
\* FrontierTracker.max_frontier
max_frontier == tracker.max_frontier
\* FrontierTracker.depth
depth == tracker.depth
\* history: the blocks step has returned, in order
yielded == tracker.yielded

\* ---- Part XIV: the fields of range_call ----
\* the storage, the stored object and the arguments of read_range
rr_in == range_call.rr_in
\* what read_range returned
rr_out == range_call.rr_out

\* Parts XII to XV
finalVars == <<explode_call, tracker, range_call, spill_dir>>

\* Parts V to XV
laterVars == <<generator, engine_run, retry_call, yaml_call, block_size, filter_call,
               window_call, finalVars>>

budgetVars == <<capacity, used, guardLive, guardBytes, tpc, top>>

planVars == <<mode, order, max_parallel>>

engineVars == <<epc, ei, eresults, einputs, eerr, manifest, estarted, estored, ehanded>>

schedVars == <<spc, readyQ, readyOpen, completeQ, pending, sresults, completed_count,
               lpc, lblock, permits, active_tasks, wpc, launched, serr>>

execVars == <<planVars, engineVars, schedVars>>

\* what the operations of one part leave alone
notBudget == <<execVars, spillVars, headerVars, sortVars, mergeVars, laterVars>>

notExec == <<budgetVars, spillVars, headerVars, sortVars, mergeVars, laterVars>>

\* read_batch takes and returns budget bytes
notSpillSort == <<guardLive, guardBytes, tpc, top, execVars, headerVars, laterVars>>

notSpill == <<notSpillSort, sortVars, mergeVars>>

notHeader == <<budgetVars, execVars, spillVars, sortVars, mergeVars, laterVars>>

notSort == <<budgetVars, execVars, spillVars, headerVars, laterVars>>

\* Parts I to IV
earlierVars == <<budgetVars, execVars, spillVars, headerVars, sortVars, mergeVars>>

\* the RunGenerator writes through the spill manager
notRunGen == <<budgetVars, execVars, headerVars, sortVars, mergeVars, engine_run,
               retry_call, yaml_call, block_size, filter_call, window_call,
               finalVars>>

notRun == <<earlierVars, generator, retry_call, yaml_call, block_size, filter_call,
            window_call,
               finalVars>>

notRetry == <<earlierVars, generator, engine_run, yaml_call, block_size, filter_call,
              window_call,
               finalVars>>

notYaml == <<earlierVars, generator, engine_run, retry_call, block_size, filter_call,
             window_call,
               finalVars>>

notSize == <<earlierVars, generator, engine_run, retry_call, yaml_call, filter_call,
             window_call,
               finalVars>>

notFilter == <<earlierVars, generator, engine_run, retry_call, yaml_call, block_size,
               window_call,
               finalVars>>

notWindow == <<earlierVars, generator, engine_run, retry_call, yaml_call, block_size,
               filter_call,
               finalVars>>

\* Parts V to XI
middleVars == <<generator, engine_run, retry_call, yaml_call, block_size, filter_call,
                window_call>>

notExplode == <<earlierVars, middleVars, tracker, range_call, spill_dir>>

notFrontier == <<earlierVars, middleVars, explode_call, range_call, spill_dir>>

notRange == <<earlierVars, middleVars, explode_call, tracker, spill_dir>>

notSpillDir == <<earlierVars, middleVars, explode_call, tracker, range_call>>

vars == <<earlierVars, laterVars>>

\* ------------------------------------------------------------------------
\* Part I: memory budget
\* ------------------------------------------------------------------------
NoCall == [kind |-> "none", g |-> 0, delta |-> 0, newb |-> 0, cur |-> 0, next |-> 0]

\* usize::saturating_add
saturating_add(a, b) == IF a + b > MaxWord THEN MaxWord ELSE a + b

\* AtomicUsize::fetch_sub wraps around on underflow
release(u, bytes) == (u - bytes + Word) % Word

\* a slot that holds no guard and that no call in progress will fill
SlotFree(g) ==
    /\ ~guardLive[g]
    /\ \A t \in Threads : top[t].g # g

\* a guard that exists and is not borrowed by a call in progress
GuardIdle(g) ==
    /\ guardLive[g]
    /\ \A t \in Threads : top[t].g # g

BudgetInit ==
    /\ capacity \in Bytes
    /\ used = 0
    /\ guardLive = [g \in Guards |-> FALSE]
    /\ guardBytes = [g \in Guards |-> 0]
    /\ tpc = [t \in Threads |-> "idle"]
    /\ top = [t \in Threads |-> NoCall]

\* try_acquire whose zero-byte shortcut is refused by a full budget
MemoryBudgetImpl_try_acquire_zero_checked(t, g, bytes) ==
    /\ tpc[t] = "idle"
    /\ UNCHANGED notBudget
    /\ SlotFree(g)
    /\ IF bytes = 0 /\ used < capacity
       THEN /\ guardLive' = [guardLive EXCEPT ![g] = TRUE]
            /\ guardBytes' = [guardBytes EXCEPT ![g] = 0]
            /\ UNCHANGED <<capacity, used, tpc, top>>
       ELSE IF bytes = 0
       THEN UNCHANGED <<capacity, used, guardLive, guardBytes, tpc, top>>
       ELSE /\ tpc' = [tpc EXCEPT ![t] = "load"]
            /\ top' = [top EXCEPT ![t] = [kind |-> "acquire", g |-> g, delta |-> bytes,
                                          newb |-> bytes, cur |-> 0, next |-> 0]]
            /\ UNCHANGED <<capacity, used, guardLive, guardBytes>>

\* MemoryBudgetImpl::try_acquire, entry: the zero-byte shortcut returns a
\* guard without touching the counter, any other size enters the CAS loop.
MemoryBudgetImpl_try_acquire(t, g, bytes) ==
    /\ tpc[t] = "idle"
    /\ UNCHANGED notBudget
    /\ SlotFree(g)
    /\ IF bytes = 0
       THEN /\ guardLive' = [guardLive EXCEPT ![g] = TRUE]
            /\ guardBytes' = [guardBytes EXCEPT ![g] = 0]
            /\ UNCHANGED <<capacity, used, tpc, top>>
       ELSE /\ tpc' = [tpc EXCEPT ![t] = "load"]
            /\ top' = [top EXCEPT ![t] = [kind |-> "acquire", g |-> g, delta |-> bytes,
                                          newb |-> bytes, cur |-> 0, next |-> 0]]
            /\ UNCHANGED <<capacity, used, guardLive, guardBytes>>

\* BudgetInner::try_acquire, loop head: load the counter, add with
\* saturation, return false when the sum is above the capacity.
BudgetInner_try_acquire_load(t) ==
    /\ tpc[t] = "load"
    /\ UNCHANGED notBudget
    /\ LET cur == used
           next == saturating_add(cur, top[t].delta)
       IN IF next > capacity
          THEN /\ tpc' = [tpc EXCEPT ![t] = "idle"]
               /\ top' = [top EXCEPT ![t] = NoCall]
               /\ UNCHANGED <<capacity, used, guardLive, guardBytes>>
          ELSE /\ tpc' = [tpc EXCEPT ![t] = "cas"]
               /\ top' = [top EXCEPT ![t].cur = cur, ![t].next = next]
               /\ UNCHANGED <<capacity, used, guardLive, guardBytes>>

\* BudgetInner::try_acquire, compare_exchange(cur, next): on success the call
\* returns true and the caller builds the guard (try_acquire) or records the
\* new size (try_resize); on failure the loop starts over.
BudgetInner_try_acquire_cas(t) ==
    /\ tpc[t] = "cas"
    /\ UNCHANGED notBudget
    /\ IF used = top[t].cur
       THEN /\ used' = top[t].next
            /\ guardLive' = [guardLive EXCEPT ![top[t].g] = TRUE]
            /\ guardBytes' = [guardBytes EXCEPT ![top[t].g] = top[t].newb]
            /\ tpc' = [tpc EXCEPT ![t] = "idle"]
            /\ top' = [top EXCEPT ![t] = NoCall]
            /\ UNCHANGED capacity
       ELSE /\ tpc' = [tpc EXCEPT ![t] = "load"]
            /\ UNCHANGED <<capacity, used, guardLive, guardBytes, top>>

\* BudgetGuardImpl::try_resize: equal size is a no-op, a shrink releases the
\* difference at once, a grow enters the CAS loop with the difference.
BudgetGuardImpl_try_resize(t, g, new_bytes) ==
    /\ tpc[t] = "idle"
    /\ UNCHANGED notBudget
    /\ GuardIdle(g)
    /\ IF new_bytes = guardBytes[g]
       THEN UNCHANGED <<capacity, used, guardLive, guardBytes, tpc, top>>
       ELSE IF new_bytes < guardBytes[g]
       THEN /\ used' = release(used, guardBytes[g] - new_bytes)
            /\ guardBytes' = [guardBytes EXCEPT ![g] = new_bytes]
            /\ UNCHANGED <<capacity, guardLive, tpc, top>>
       ELSE /\ tpc' = [tpc EXCEPT ![t] = "load"]
            /\ top' = [top EXCEPT ![t] = [kind |-> "resize", g |-> g,
                                          delta |-> new_bytes - guardBytes[g],
                                          newb |-> new_bytes, cur |-> 0, next |-> 0]]
            /\ UNCHANGED <<capacity, used, guardLive, guardBytes>>

\* Drop for BudgetGuardImpl: release the bytes, if any, and zero the guard.
BudgetGuardImpl_drop(t, g) ==
    /\ tpc[t] = "idle"
    /\ UNCHANGED notBudget
    /\ GuardIdle(g)
    /\ used' = IF guardBytes[g] > 0 THEN release(used, guardBytes[g]) ELSE used
    /\ guardBytes' = [guardBytes EXCEPT ![g] = 0]
    /\ guardLive' = [guardLive EXCEPT ![g] = FALSE]
    /\ UNCHANGED <<capacity, tpc, top>>

\* Request sizes the callers pass: nothing, one byte, the whole capacity and
\* the largest word; every comparison in guard.rs is decided by these.
RequestSizes == {0, 1, capacity, MaxWord}

BudgetNext ==
    \/ \E t \in Threads, g \in Guards, bytes \in RequestSizes :
          MemoryBudgetImpl_try_acquire(t, g, bytes)
    \/ \E t \in Threads : BudgetInner_try_acquire_load(t)
    \/ \E t \in Threads : BudgetInner_try_acquire_cas(t)
    \/ \E t \in Threads, g \in Guards, new_bytes \in RequestSizes :
          BudgetGuardImpl_try_resize(t, g, new_bytes)
    \/ \E t \in Threads, g \in Guards : BudgetGuardImpl_drop(t, g)

\* ------------------------------------------------------------------------
\* Part II: block execution, the plan
\* ------------------------------------------------------------------------
BlockSlots == 1..MaxBlocks

\* TeBlock.deps of block i: a list of at most MaxFanIn ids of blocks 1..i (an
\* id below i names an earlier block, the id i makes the plan ill-formed),
\* repetitions included, listed in ascending order
DepLists(i) == {d \in UNION {[1..k -> 1..i] : k \in 0..MaxFanIn} :
                   \A j \in 1..(Len(d) - 1) : d[j] <= d[j + 1]}

\* te.order with n blocks; the block at position i has id i
RECURSIVE Plans(_)
Plans(n) == IF n = 0 THEN {<<>>}
            ELSE {Append(p, d) : p \in Plans(n - 1), d \in DepLists(n)}

\* te.order with at most most_blocks blocks
PlanSet(most_blocks) == UNION {Plans(n) : n \in 0..most_blocks}

NumBlocks == Len(order)

\* number of positions of the list s that hold x
RECURSIVE Count(_, _)
Count(s, x) == IF s = <<>> THEN 0
               ELSE (IF Head(s) = x THEN 1 ELSE 0) + Count(Tail(s), x)

SeqToSet(s) == {s[k] : k \in DOMAIN s}

\* ------------------------------------------------------------------------
\* Part II: Engine::run, the sequential block loop
\* ------------------------------------------------------------------------
EngineInit ==
    /\ epc = "loop"
    /\ ei = 1
    /\ eresults = {}
    /\ einputs = <<>>
    /\ eerr = "none"
    /\ manifest = FALSE
    /\ estarted = {}
    /\ estored = {}
    /\ ehanded = [b \in BlockSlots |-> 0]

\* the gather loop with results.get in place of results.remove
RECURSIVE gather_inputs_keeping(_, _, _)
gather_inputs_keeping(deps, res, inputs) ==
    IF deps = <<>> THEN [ok |-> TRUE, res |-> res, inputs |-> inputs]
    ELSE IF Head(deps) \in res
         THEN gather_inputs_keeping(Tail(deps), res, Append(inputs, Head(deps)))
         ELSE [ok |-> FALSE, res |-> res, inputs |-> inputs]

\* the gather loop skipping a dependency whose batch is absent
RECURSIVE gather_inputs_lenient(_, _, _)
gather_inputs_lenient(deps, res, inputs) ==
    IF deps = <<>> THEN [ok |-> TRUE, res |-> res, inputs |-> inputs]
    ELSE IF Head(deps) \in res
         THEN gather_inputs_lenient(Tail(deps), res \ {Head(deps)}, Append(inputs, Head(deps)))
         ELSE gather_inputs_lenient(Tail(deps), res, inputs)

\* the gather loop of Engine::run: every dependency, in order, is removed
\* from results and pushed on inputs; the first absent one ends the run
RECURSIVE gather_inputs(_, _, _)
gather_inputs(deps, res, inputs) ==
    IF deps = <<>> THEN [ok |-> TRUE, res |-> res, inputs |-> inputs]
    ELSE IF Head(deps) \in res
         THEN gather_inputs(Tail(deps), res \ {Head(deps)}, Append(inputs, Head(deps)))
         ELSE [ok |-> FALSE, res |-> res, inputs |-> inputs]

\* Engine::run, top of one iteration of the block loop: gather the inputs
Engine_run_gather ==
    /\ mode = "engine"
    /\ epc = "loop"
    /\ ei <= NumBlocks
    /\ LET g == gather_inputs(order[ei], eresults, <<>>)
       IN /\ eresults' = g.res
          /\ einputs' = g.inputs
          /\ ehanded' = [b \in BlockSlots |-> ehanded[b] + Count(g.inputs, b)]
          /\ IF g.ok
             THEN /\ epc' = "dispatch"
                  /\ eerr' = eerr
             ELSE /\ epc' = "failed"
                  /\ eerr' = "invalid_dep"
    /\ UNCHANGED <<ei, manifest, estarted, estored>>
    /\ UNCHANGED <<planVars, schedVars, notExec>>

\* Engine::run: look the operator up (an unbound op id ends the run) and
\* enter eval_block
Engine_run_dispatch ==
    /\ mode = "engine"
    /\ epc = "dispatch"
    /\ \E bound \in BOOLEAN :
          IF bound
          THEN /\ epc' = "eval"
               /\ estarted' = estarted \cup {ei}
               /\ eerr' = eerr
          ELSE /\ epc' = "failed"
               /\ estarted' = estarted
               /\ eerr' = "invalid_op"
    /\ UNCHANGED <<ei, eresults, einputs, manifest, estored, ehanded>>
    /\ UNCHANGED <<planVars, schedVars, notExec>>

\* the return of eval_block with an error being ignored by the loop
Engine_run_eval_return_continue ==
    /\ mode = "engine"
    /\ epc = "eval"
    /\ \E ok \in BOOLEAN :
          IF ok
          THEN /\ eresults' = eresults \cup {ei}
               /\ estored' = estored \cup {ei}
               /\ eerr' = eerr
          ELSE /\ eresults' = eresults
               /\ estored' = estored
               /\ eerr' = "operator"
    /\ ei' = ei + 1
    /\ epc' = "loop"
    /\ einputs' = <<>>
    /\ UNCHANGED <<manifest, estarted, ehanded>>
    /\ UNCHANGED <<planVars, schedVars, notExec>>

\* Engine::run: eval_block returns; Ok stores the result under the block id
\* and moves on, Err ends the run with that error
Engine_run_eval_return ==
    /\ mode = "engine"
    /\ epc = "eval"
    /\ \E ok \in BOOLEAN :
          IF ok
          THEN /\ eresults' = eresults \cup {ei}
               /\ estored' = estored \cup {ei}
               /\ ei' = ei + 1
               /\ epc' = "loop"
               /\ einputs' = <<>>
               /\ eerr' = eerr
          ELSE /\ epc' = "failed"
               /\ eerr' = "operator"
               /\ UNCHANGED <<ei, eresults, einputs, estored>>
    /\ UNCHANGED <<manifest, estarted, ehanded>>
    /\ UNCHANGED <<planVars, schedVars, notExec>>

\* Engine::run: the loop is over, finish the manifest and return it
Engine_run_finish ==
    /\ mode = "engine"
    /\ epc = "loop"
    /\ ei > NumBlocks
    /\ epc' = "done"
    /\ manifest' = TRUE
    /\ UNCHANGED <<ei, eresults, einputs, eerr, estarted, estored, ehanded>>
    /\ UNCHANGED <<planVars, schedVars, notExec>>

EngineNext ==
    \/ Engine_run_gather
    \/ Engine_run_dispatch
    \/ Engine_run_eval_return
    \/ Engine_run_finish

\* ------------------------------------------------------------------------
\* Part II: AsyncScheduler::execute_dag
\* ------------------------------------------------------------------------
SchedInit ==
    /\ spc = "start"
    /\ readyQ = <<>>
    /\ readyOpen = TRUE
    /\ completeQ = <<>>
    /\ pending = [b \in BlockSlots |-> 0]
    /\ sresults = {}
    /\ completed_count = 0
    /\ lpc = "none"
    /\ lblock = 0
    /\ permits = max_parallel
    /\ active_tasks = 0
    /\ wpc = [b \in BlockSlots |-> "none"]
    /\ launched = [b \in BlockSlots |-> 0]
    /\ serr = "none"

\* dependents[b]: block i once for every occurrence of b in its deps, in the
\* order of blocks
RECURSIVE dependents_from(_, _)
dependents_from(i, b) ==
    IF i > NumBlocks THEN <<>>
    ELSE [k \in 1..Count(order[i], b) |-> i] \o dependents_from(i + 1, b)

dependents(b) == dependents_from(1, b)

\* the blocks without dependencies, in the order of blocks
RECURSIVE initially_ready(_)
initially_ready(i) ==
    IF i > NumBlocks THEN <<>>
    ELSE (IF order[i] = <<>> THEN <<i>> ELSE <<>>) \o initially_ready(i + 1)

\* the loop had it sent every dependent it decrements to the ready channel
RECURSIVE notify_dependents_sending_all(_, _, _)
notify_dependents_sending_all(list, pend, rq) ==
    IF list = <<>> THEN [pend |-> pend, rq |-> rq]
    ELSE notify_dependents_sending_all(Tail(list),
                                       [pend EXCEPT ![Head(list)] = pend[Head(list)] - 1],
                                       Append(rq, Head(list)))

\* the loop over the dependents of a completed block: decrement the pending
\* count of each and send it to the ready channel when the count reaches 0
RECURSIVE notify_dependents(_, _, _)
notify_dependents(list, pend, rq) ==
    IF list = <<>> THEN [pend |-> pend, rq |-> rq]
    ELSE LET d == Head(list)
             c == pend[d] - 1
         IN notify_dependents(Tail(list), [pend EXCEPT ![d] = c],
                              IF c = 0 THEN Append(rq, d) ELSE rq)

\* execute_dag up to the completion loop: dependency counts, the initially
\* ready blocks, the launcher task
execute_dag_setup ==
    /\ mode = "sched"
    /\ spc = "start"
    /\ pending' = [b \in BlockSlots |-> IF b <= NumBlocks THEN Len(order[b]) ELSE 0]
    /\ readyQ' = initially_ready(1)
    /\ lpc' = "recv"
    /\ spc' = "loop"
    /\ UNCHANGED <<readyOpen, completeQ, sresults, completed_count, lblock, permits,
                   active_tasks, wpc, serr>>
    /\ UNCHANGED <<planVars, engineVars, launched, notExec>>

\* complete_tx.send(..).ok(): the message is lost once execute_dag has
\* returned and dropped the receiver
send_completion(b, ok) ==
    IF spc = "returned" THEN completeQ
    ELSE Append(completeQ, [id |-> b, ok |-> ok])

\* execute_dag, one iteration of the completion loop
execute_dag_recv ==
    /\ mode = "sched"
    /\ spc = "loop"
    /\ completeQ # <<>>
    /\ LET m == Head(completeQ)
       IN IF m.ok
          THEN LET nt == notify_dependents(dependents(m.id), pending, readyQ)
               IN /\ completeQ' = Tail(completeQ)
                  /\ sresults' = sresults \cup {m.id}
                  /\ completed_count' = completed_count + 1
                  /\ pending' = nt.pend
                  /\ readyQ' = nt.rq
                  /\ IF completed_count + 1 >= NumBlocks
                     THEN /\ spc' = "join"
                          /\ readyOpen' = FALSE
                     ELSE /\ spc' = "loop"
                          /\ readyOpen' = readyOpen
                  /\ serr' = serr
          ELSE /\ completeQ' = <<>>
               /\ spc' = "returned"
               /\ serr' = "block_failed"
               /\ readyOpen' = FALSE
               /\ UNCHANGED <<sresults, completed_count, pending, readyQ>>
    /\ UNCHANGED <<lpc, lblock, permits, active_tasks, wpc>>
    /\ UNCHANGED <<planVars, engineVars, launched, notExec>>

\* execute_dag after the loop: the launcher has been joined, the results are
\* unwrapped, which fails while a worker task still holds its clone
execute_dag_join ==
    /\ mode = "sched"
    /\ spc = "join"
    /\ lpc = "exited"
    /\ spc' = "returned"
    /\ serr' = IF \A b \in BlockSlots : wpc[b] \in {"none", "exited"}
               THEN "none" ELSE "unwrap"
    /\ UNCHANGED <<readyQ, readyOpen, completeQ, pending, sresults, completed_count,
                   lpc, lblock, permits, active_tasks, wpc>>
    /\ UNCHANGED <<planVars, engineVars, launched, notExec>>

\* launcher: ready_rx.recv() yields a block id
launcher_recv ==
    /\ mode = "sched"
    /\ lpc = "recv"
    /\ readyQ # <<>>
    /\ lblock' = Head(readyQ)
    /\ readyQ' = Tail(readyQ)
    /\ lpc' = "acquire"
    /\ UNCHANGED <<spc, readyOpen, completeQ, pending, sresults, completed_count,
                   permits, active_tasks, wpc, serr>>
    /\ UNCHANGED <<planVars, engineVars, launched, notExec>>

\* launcher: ready_rx.recv() yields None, the channel is empty and closed
launcher_exit ==
    /\ mode = "sched"
    /\ lpc = "recv"
    /\ readyQ = <<>>
    /\ ~readyOpen
    /\ lpc' = "exited"
    /\ UNCHANGED <<spc, readyQ, readyOpen, completeQ, pending, sresults,
                   completed_count, lblock, permits, active_tasks, wpc, serr>>
    /\ UNCHANGED <<planVars, engineVars, launched, notExec>>

\* a launcher that goes on without a permit when none is available
launcher_acquire_no_wait ==
    /\ mode = "sched"
    /\ lpc = "acquire"
    /\ permits' = IF permits > 0 THEN permits - 1 ELSE 0
    /\ lpc' = "spawn"
    /\ UNCHANGED <<spc, readyQ, readyOpen, completeQ, pending, sresults,
                   completed_count, lblock, active_tasks, wpc, serr>>
    /\ UNCHANGED <<planVars, engineVars, launched, notExec>>

\* launcher: semaphore.acquire_owned() completes when a permit is available
launcher_acquire ==
    /\ mode = "sched"
    /\ lpc = "acquire"
    /\ permits > 0
    /\ permits' = permits - 1
    /\ lpc' = "spawn"
    /\ UNCHANGED <<spc, readyQ, readyOpen, completeQ, pending, sresults,
                   completed_count, lblock, active_tasks, wpc, serr>>
    /\ UNCHANGED <<planVars, engineVars, launched, notExec>>

\* launcher: count the task and spawn the worker, which owns the permit
launcher_spawn ==
    /\ mode = "sched"
    /\ lpc = "spawn"
    /\ active_tasks' = active_tasks + 1
    /\ wpc' = [wpc EXCEPT ![lblock] = "spawned"]
    /\ launched' = [launched EXCEPT ![lblock] = launched[lblock] + 1]
    /\ lblock' = 0
    /\ lpc' = "recv"
    /\ UNCHANGED <<spc, readyQ, readyOpen, completeQ, pending, sresults,
                   completed_count, permits, serr>>
    /\ UNCHANGED <<planVars, engineVars, notExec>>

\* worker, execute_block up to eval_block: every dependency must be in
\* results and the operator must be bound, else the block result is an error
execute_block_gather(b) ==
    /\ mode = "sched"
    /\ wpc[b] = "spawned"
    /\ \E bound \in BOOLEAN :
          IF bound /\ \A d \in SeqToSet(order[b]) : d \in sresults
          THEN /\ wpc' = [wpc EXCEPT ![b] = "eval"]
               /\ completeQ' = completeQ
          ELSE /\ wpc' = [wpc EXCEPT ![b] = "sent"]
               /\ completeQ' = send_completion(b, FALSE)
    /\ UNCHANGED <<spc, readyQ, readyOpen, pending, sresults, completed_count,
                   lpc, lblock, permits, active_tasks, serr>>
    /\ UNCHANGED <<planVars, engineVars, launched, notExec>>

\* worker: eval_block returns and its result is sent to the completion loop
execute_block_eval(b) ==
    /\ mode = "sched"
    /\ wpc[b] = "eval"
    /\ \E ok \in BOOLEAN : completeQ' = send_completion(b, ok)
    /\ wpc' = [wpc EXCEPT ![b] = "sent"]
    /\ UNCHANGED <<spc, readyQ, readyOpen, pending, sresults, completed_count,
                   lpc, lblock, permits, active_tasks, serr>>
    /\ UNCHANGED <<planVars, engineVars, launched, notExec>>

\* worker: active_tasks.fetch_sub(1)
worker_fetch_sub(b) ==
    /\ mode = "sched"
    /\ wpc[b] = "sent"
    /\ active_tasks' = active_tasks - 1
    /\ wpc' = [wpc EXCEPT ![b] = "dec"]
    /\ UNCHANGED <<spc, readyQ, readyOpen, completeQ, pending, sresults,
                   completed_count, lpc, lblock, permits, serr>>
    /\ UNCHANGED <<planVars, engineVars, launched, notExec>>

\* worker: the task ends, dropping its permit and its clone of results
worker_exit(b) ==
    /\ mode = "sched"
    /\ wpc[b] = "dec"
    /\ permits' = permits + 1
    /\ wpc' = [wpc EXCEPT ![b] = "exited"]
    /\ UNCHANGED <<spc, readyQ, readyOpen, completeQ, pending, sresults,
                   completed_count, lpc, lblock, active_tasks, serr>>
    /\ UNCHANGED <<planVars, engineVars, launched, notExec>>

SchedNext ==
    \/ execute_dag_setup
    \/ execute_dag_recv
    \/ execute_dag_join
    \/ launcher_recv
    \/ launcher_exit
    \/ launcher_acquire
    \/ launcher_spawn
    \/ \E b \in BlockSlots : execute_block_gather(b)
    \/ \E b \in BlockSlots : execute_block_eval(b)
    \/ \E b \in BlockSlots : worker_fetch_sub(b)
    \/ \E b \in BlockSlots : worker_exit(b)

\* ------------------------------------------------------------------------
\* Part III: spill segments, the pure parts
\* ------------------------------------------------------------------------
\* 0x45534D51
MAGIC == 1163087185

VERSION == 1

HEADER_LEN == 4 + 2 + 1 + 1 + 8 + 8

\* the limit read_batch hands to validate_sizes, 100 * 1024 * 1024
SizeLimit == 100 * 1024 * 1024

CodecNone == 0

Codecs == {0, 1, 2}

\* run indices write_batch and delete_segment are called with; with one
\* spill id SegmentName::new is one-to-one on them
RunIndices == 0..(NSegments - 1)

\* number of values of an AtomicU32, scaled down
RunWord == MaxRun + 1

\* calls of next_run_index followed: enough to pass the largest value
MaxCalls == MaxRun + 2

\* Scalar: the variant, the number held and, for a float, whether it is
\* finite ("fin"), an infinity ("inf") or NaN ("nan")
ScalarNull == [tag |-> "Null", num |-> 0, cls |-> "fin"]

ScalarI64(n) == [tag |-> "I64", num |-> n, cls |-> "fin"]

ScalarF64(n) == [tag |-> "F64", num |-> n, cls |-> "fin"]

ScalarInf == [tag |-> "F64", num |-> 0, cls |-> "inf"]

ScalarNaN == [tag |-> "F64", num |-> 0, cls |-> "nan"]

\* Scalar values occurring in spilled batches: an I64, a finite F64, a
\* non-finite F64
Scalars == {ScalarI64(1), ScalarF64(1), ScalarInf}

\* RowBatch: the list of its columns; no column, or a column x of at most
\* one value
Batches == {<<>>} \cup
           {<<[name |-> "x", values |-> v]>> : v \in {<<>>} \cup {<<x>> : x \in Scalars}}

\* serde_json writes a non-finite float as null
json_scalar(x) ==
    IF x.tag = "F64" /\ x.cls # "fin" THEN [tag |-> "F64", num |-> 0, cls |-> "null"] ELSE x

\* serde_json::to_vec(batch)
to_vec(batch) ==
    [i \in DOMAIN batch |->
        [name |-> batch[i].name,
         values |-> [j \in DOMAIN batch[i].values |-> json_scalar(batch[i].values[j])]]]

\* serde_json::from_slice fails on a null where a float is expected
from_slice_ok(json) ==
    \A i \in DOMAIN json : \A j \in DOMAIN json[i].values :
        ~(json[i].values[j].tag = "F64" /\ json[i].values[j].cls = "null")

\* serde_json::from_slice, where it succeeds
from_slice(json) == json

\* RowBatch::num_rows: the length of the first column
num_rows(batch) == IF batch = <<>> THEN 0 ELSE Len(batch[1].values)

\* uncompressed.len(), scaled: one unit for the batch and one per row
json_len(json) == 1 + num_rows(json)

\* compressed.len() for an input of n bytes: Codec::None copies the input,
\* a compressing codec gives an output that is shorter, as long or longer
compressed_lens(c, n) ==
    IF c = CodecNone THEN {n} ELSE {k \in {n - 1, n, n + 1} : k >= 1}

\* by how much the compressor changes the length of its input
LenChanges == {-1, 0, 1}

\* codec::decompress on a payload compress produced
decompress(c, enabled, payload) ==
    IF c = CodecNone THEN [ok |-> TRUE, kind |-> "", data |-> payload.data]
    ELSE IF ~enabled THEN [ok |-> FALSE, kind |-> "CodecUnsupported", data |-> <<>>]
    ELSE IF payload.codec = c /\ ~payload.flipped
         THEN [ok |-> TRUE, kind |-> "", data |-> payload.data]
         ELSE [ok |-> FALSE, kind |-> "Codec", data |-> <<>>]

\* SegmentHeader::to_bytes
to_bytes(header) ==
    [len |-> HEADER_LEN, magic |-> header.magic, version |-> header.version,
     codec |-> header.codec, reserved |-> 0,
     uncompressed_len |-> header.uncompressed_len,
     compressed_len |-> header.compressed_len]

NoHeader == [magic |-> 0, version |-> 0, codec |-> 0,
             uncompressed_len |-> 0, compressed_len |-> 0]

\* SegmentHeader::from_bytes
from_bytes(bytes) ==
    IF bytes.len < HEADER_LEN
    THEN [ok |-> FALSE, kind |-> "Storage", msg |-> "short header", header |-> NoHeader]
    ELSE IF bytes.codec \notin Codecs
    THEN [ok |-> FALSE, kind |-> "CodecUnsupported", msg |-> "unknown", header |-> NoHeader]
    ELSE IF bytes.magic # MAGIC \/ bytes.version # VERSION
    THEN [ok |-> FALSE, kind |-> "Storage", msg |-> "bad magic/version", header |-> NoHeader]
    ELSE [ok |-> TRUE, kind |-> "", msg |-> "",
          header |-> [magic |-> bytes.magic, version |-> bytes.version,
                      codec |-> bytes.codec,
                      uncompressed_len |-> bytes.uncompressed_len,
                      compressed_len |-> bytes.compressed_len]]

\* validate_sizes with the limits themselves rejected
validate_sizes_strict(header, max_uncompressed, max_compressed) ==
    IF header.uncompressed_len >= max_uncompressed
    THEN [ok |-> FALSE, msg |-> "uncompressed_len exceeds max"]
    ELSE IF header.compressed_len >= max_compressed
    THEN [ok |-> FALSE, msg |-> "compressed_len exceeds max"]
    ELSE IF header.compressed_len > header.uncompressed_len /\ header.codec # CodecNone
    THEN [ok |-> FALSE, msg |-> "compressed_len > uncompressed_len"]
    ELSE [ok |-> TRUE, msg |-> ""]

\* SegmentHeader::validate_sizes
validate_sizes(header, max_uncompressed, max_compressed) ==
    IF header.uncompressed_len > max_uncompressed
    THEN [ok |-> FALSE, msg |-> "uncompressed_len exceeds max"]
    ELSE IF header.compressed_len > max_compressed
    THEN [ok |-> FALSE, msg |-> "compressed_len exceeds max"]
    ELSE IF header.compressed_len > header.uncompressed_len /\ header.codec # CodecNone
    THEN [ok |-> FALSE, msg |-> "compressed_len > uncompressed_len"]
    ELSE [ok |-> TRUE, msg |-> ""]

\* blake3 over header || payload, taken as collision-free: the digest stands
\* for the bytes digested
blake3(segment) == segment

\* x with its lowest bit flipped
flip_bit(x) == IF x % 2 = 0 THEN x + 1 ELSE x - 1

SegmentFields == {"magic", "version", "codec", "reserved",
                  "uncompressed_len", "compressed_len", "payload"}

\* a stored segment with one bit of the named field flipped
flipped_segment(seg, field) ==
    IF field = "payload"
    THEN [seg EXCEPT !.payload.flipped = TRUE]
    ELSE [seg EXCEPT !.header[field] = flip_bit(seg.header[field])]

\* the segment write_batch stores for a batch
stored_segment(batch, c, compressed_len) ==
    [present |-> TRUE,
     header |-> to_bytes([magic |-> MAGIC, version |-> VERSION, codec |-> c,
                          uncompressed_len |-> json_len(to_vec(batch)),
                          compressed_len |-> compressed_len]),
     payload |-> [codec |-> c, data |-> to_vec(batch), flipped |-> FALSE]]

\* the SegmentMeta write_batch returns for it
segment_meta(batch, c, compressed_len, run_index) ==
    [present |-> TRUE, name |-> run_index, codec |-> c,
     uncompressed_len |-> json_len(to_vec(batch)),
     compressed_len |-> compressed_len,
     checksum |-> blake3(stored_segment(batch, c, compressed_len))]

\* MemoryBudgetImpl::try_acquire run to its end by the only thread there is
try_acquire_once(u, bytes) ==
    IF bytes = 0 THEN [granted |-> TRUE, used |-> u]
    ELSE IF saturating_add(u, bytes) > capacity THEN [granted |-> FALSE, used |-> u]
    ELSE [granted |-> TRUE, used |-> saturating_add(u, bytes)]

\* ------------------------------------------------------------------------
\* Part III: SpillManager
\* ------------------------------------------------------------------------
NoMeta == [present |-> FALSE]

NoSegment == [present |-> FALSE]

NoRead == [kind |-> "none", msg |-> "", parsed |-> FALSE, acquired |-> FALSE,
           guard |-> 0, decompressed |-> FALSE, deserialized |-> FALSE,
           batch |-> <<>>]

NoDelete == [name |-> 0, ok |-> FALSE, called |-> FALSE]

\* SpillManager::new; no spill directory in use when the manager is off
SpillInit ==
    /\ storage = {}
    /\ segments = {}
    /\ meta = NoMeta
    /\ segbytes = NoSegment
    /\ written = <<>>
    /\ next_run = 0
    /\ issued = <<>>
    /\ rres = NoRead
    /\ dres = NoDelete

\* SpillManager::write_batch: serialize, compress, build the header, digest
\* header and payload, write them, track the metadata; a codec error or a
\* failed storage write returns before anything is stored or tracked
SpillManager_write_batch(batch, run_index, change, io_ok) ==
    /\ LET uncompressed == to_vec(batch)
           uncompressed_len == json_len(uncompressed)
           compressed_len == uncompressed_len + change
           supported == codec = CodecNone \/ codec_enabled
       IN IF ~supported \/ ~io_ok
          THEN UNCHANGED <<storage, segments, meta, segbytes, written>>
          ELSE /\ compressed_len \in compressed_lens(codec, uncompressed_len)
               /\ storage' = storage \cup {run_index}
               /\ segbytes' = stored_segment(batch, codec, compressed_len)
               /\ meta' = segment_meta(batch, codec, compressed_len, run_index)
               /\ segments' = segments \cup {run_index}
               /\ written' = batch
    /\ UNCHANGED <<codec, codec_enabled, next_run, issued, rres, dres>>
    /\ UNCHANGED <<capacity, used, notSpill>>

\* one bit of the segment at meta.path changes behind the manager's back
Storage_corrupt(field) ==
    /\ meta.present
    /\ segbytes.present
    /\ blake3(segbytes) = meta.checksum
    /\ segbytes' = flipped_segment(segbytes, field)
    /\ UNCHANGED <<codec, codec_enabled, storage, segments, meta, written,
                   next_run, issued, rres, dres>>
    /\ UNCHANGED <<capacity, used, notSpill>>

ReadFailed(kind, msg, parsed, u) ==
    [res |-> [kind |-> kind, msg |-> msg, parsed |-> parsed, acquired |-> FALSE,
              guard |-> 0, decompressed |-> FALSE, deserialized |-> FALSE,
              batch |-> <<>>],
     used |-> u]

\* read_batch going on to decompress when the budget denies the guard
read_batch_unbudgeted(m, stored, enabled, u, io_ok) ==
    IF ~io_ok \/ ~stored.present
    THEN ReadFailed("Storage", "read_range", FALSE, u)
    ELSE IF blake3(stored) # m.checksum
    THEN ReadFailed("Storage", "checksum mismatch", FALSE, u)
    ELSE LET parsed == from_bytes(stored.header) IN
    IF ~parsed.ok
    THEN ReadFailed(parsed.kind, parsed.msg, TRUE, u)
    ELSE LET sizes == validate_sizes(parsed.header, SizeLimit, SizeLimit) IN
    IF ~sizes.ok
    THEN ReadFailed("Storage", sizes.msg, TRUE, u)
    ELSE LET want == parsed.header.uncompressed_len
             got == try_acquire_once(u, want)
             raw == decompress(parsed.header.codec, enabled, stored.payload)
             after == IF got.granted /\ want > 0 THEN release(got.used, want) ELSE got.used
             done == [kind |-> "Ok", msg |-> "", parsed |-> TRUE, acquired |-> got.granted,
                      guard |-> want, decompressed |-> TRUE, deserialized |-> TRUE,
                      batch |-> <<>>]
         IN
    IF ~raw.ok
    THEN [res |-> [done EXCEPT !.kind = raw.kind, !.deserialized = FALSE], used |-> after]
    ELSE IF ~from_slice_ok(raw.data)
    THEN [res |-> [done EXCEPT !.kind = "Codec", !.msg = "json deserialize"], used |-> after]
    ELSE [res |-> [done EXCEPT !.batch = from_slice(raw.data)], used |-> after]

\* SpillManager::read_batch: what it returns, which of its steps it reached
\* and the budget counter it leaves behind
read_batch(m, stored, enabled, u, io_ok) ==
    IF ~io_ok \/ ~stored.present
    THEN ReadFailed("Storage", "read_range", FALSE, u)
    ELSE IF blake3(stored) # m.checksum
    THEN ReadFailed("Storage", "checksum mismatch", FALSE, u)
    ELSE LET parsed == from_bytes(stored.header) IN
    IF ~parsed.ok
    THEN ReadFailed(parsed.kind, parsed.msg, TRUE, u)
    ELSE LET sizes == validate_sizes(parsed.header, SizeLimit, SizeLimit) IN
    IF ~sizes.ok
    THEN ReadFailed("Storage", sizes.msg, TRUE, u)
    ELSE LET want == parsed.header.uncompressed_len
             got == try_acquire_once(u, want)
             raw == decompress(parsed.header.codec, enabled, stored.payload)
             after == IF want > 0 THEN release(got.used, want) ELSE got.used
             done == [kind |-> "Ok", msg |-> "", parsed |-> TRUE, acquired |-> TRUE,
                      guard |-> want, decompressed |-> TRUE, deserialized |-> TRUE,
                      batch |-> <<>>]
         IN
    IF ~got.granted
    THEN ReadFailed("Budget", "cannot acquire for decompression", TRUE, u)
    ELSE IF ~raw.ok
    THEN [res |-> [done EXCEPT !.kind = raw.kind, !.deserialized = FALSE], used |-> after]
    ELSE IF ~from_slice_ok(raw.data)
    THEN [res |-> [done EXCEPT !.kind = "Codec", !.msg = "json deserialize"], used |-> after]
    ELSE [res |-> [done EXCEPT !.batch = from_slice(raw.data)], used |-> after]

\* a call of read_batch with the metadata write_batch returned
SpillManager_read_batch(io_ok) ==
    /\ meta.present
    /\ LET out == read_batch(meta, segbytes, codec_enabled, used, io_ok)
       IN /\ rres' = out.res
          /\ used' = out.used
    /\ UNCHANGED <<codec, codec_enabled, storage, segments, meta, segbytes, written,
                   next_run, issued, dres>>
    /\ UNCHANGED <<capacity, notSpill>>

\* SpillManager::next_run_index: fetch_add(1) on an AtomicU32
SpillManager_next_run_index ==
    /\ Len(issued) < MaxCalls
    /\ issued' = Append(issued, next_run)
    /\ next_run' = (next_run + 1) % RunWord
    /\ UNCHANGED <<codec, codec_enabled, storage, segments, meta, segbytes, written,
                   rres, dres>>
    /\ UNCHANGED <<capacity, used, notSpill>>

\* SpillManager::delete_segment: the metadata is removed first, then the
\* storage delete is tried; a name that is not tracked is Ok at once
SpillManager_delete_segment(name, io_ok) ==
    /\ IF name \in segments
       THEN /\ segments' = segments \ {name}
            /\ IF io_ok
               THEN /\ storage' = storage \ {name}
                    /\ segbytes' = IF meta.present /\ meta.name = name
                                   THEN NoSegment ELSE segbytes
                    /\ dres' = [name |-> name, ok |-> TRUE, called |-> TRUE]
               ELSE /\ dres' = [name |-> name, ok |-> FALSE, called |-> TRUE]
                    /\ UNCHANGED <<storage, segbytes>>
       ELSE /\ dres' = [name |-> name, ok |-> TRUE, called |-> TRUE]
            /\ UNCHANGED <<storage, segments, segbytes>>
    /\ UNCHANGED <<codec, codec_enabled, meta, written, next_run, issued, rres>>
    /\ UNCHANGED <<capacity, used, notSpill>>

\* writing, damaging and reading the segment of run 0
SpillNext ==
    \/ \E batch \in Batches, change \in LenChanges, io_ok \in BOOLEAN :
          SpillManager_write_batch(batch, 0, change, io_ok)
    \/ \E field \in SegmentFields : Storage_corrupt(field)
    \/ \E io_ok \in BOOLEAN : SpillManager_read_batch(io_ok)

\* writing and deleting segments, drawing run indices
SegmentsNext ==
    \/ \E batch \in Batches, run_index \in RunIndices,
          change \in LenChanges, io_ok \in BOOLEAN :
          SpillManager_write_batch(batch, run_index, change, io_ok)
    \/ \E name \in RunIndices, io_ok \in BOOLEAN : SpillManager_delete_segment(name, io_ok)
    \/ SpillManager_next_run_index

\* ------------------------------------------------------------------------
\* Part III: SegmentHeader as read_batch uses it
\* ------------------------------------------------------------------------
NoCheck == [done |-> FALSE, ok |-> FALSE, stage |-> "", msg |-> ""]

\* lengths around the limit
HeaderLens == {0, 1, SizeLimit, SizeLimit + 1}

\* header bytes of any origin
HeaderInputs ==
    [len : {HEADER_LEN - 1, HEADER_LEN}, magic : {MAGIC, flip_bit(MAGIC)},
     version : {0, 1, 2}, codec : 0..3, reserved : {0},
     uncompressed_len : HeaderLens, compressed_len : HeaderLens]

HeaderInit ==
    /\ hbytes \in HeaderInputs
    /\ hres = NoCheck

HeaderOff ==
    /\ hbytes = to_bytes(NoHeader)
    /\ hres = NoCheck

\* read_batch: SegmentHeader::from_bytes, then validate_sizes with 100 MiB
SegmentHeader_check ==
    /\ ~hres.done
    /\ LET parsed == from_bytes(hbytes) IN
       hres' = IF ~parsed.ok
               THEN [done |-> TRUE, ok |-> FALSE, stage |-> "from_bytes", msg |-> parsed.msg]
               ELSE LET sizes == validate_sizes(parsed.header, SizeLimit, SizeLimit) IN
                    [done |-> TRUE, ok |-> sizes.ok, stage |-> "validate_sizes",
                     msg |-> sizes.msg]
    /\ UNCHANGED <<hbytes, notHeader>>

HeaderNext == SegmentHeader_check

\* ------------------------------------------------------------------------
\* Part IV: external sort, the pure parts
\* ------------------------------------------------------------------------
\* most rows of a batch handed to the sort; its serialized length still
\* fits a machine word
MaxRows == MaxWord - 1

\* key values: a null, an integer, two finite floats and NaN
KeyScalars == {ScalarNull, ScalarI64(1), ScalarF64(1), ScalarF64(2), ScalarNaN}

\* values of the column that is not a key
PayloadScalars == {ScalarI64(1), ScalarI64(2)}

\* input batches: a column k and a column v of the same length
SortBatches ==
    UNION {{<<[name |-> "k", values |-> ks], [name |-> "v", values |-> vs]>> :
               ks \in [1..n -> KeyScalars], vs \in [1..n -> PayloadScalars]} :
           n \in 0..MaxRows}

\* key lists: one column, both columns, a column the batch does not have
SortKeyLists == {<<"k">>, <<"k", "v">>, <<"z">>}

\* types.rs scalar_type_order
scalar_type_order(s) ==
    CASE s.tag = "Null" -> 0
      [] s.tag = "I64" -> 3
      [] s.tag = "F64" -> 5

\* Ord::cmp on integers
num_cmp(x, y) == IF x < y THEN -1 ELSE IF x > y THEN 1 ELSE 0

\* f64::partial_cmp on floats that are not NaN: infinity above every finite
float_cmp(a, b) ==
    IF a.cls = "inf" /\ b.cls = "inf" THEN 0
    ELSE IF a.cls = "inf" THEN 1
    ELSE IF b.cls = "inf" THEN -1
    ELSE num_cmp(a.num, b.num)

\* types.rs scalar_cmp
scalar_cmp(a, b) ==
    IF a.tag = "Null" /\ b.tag = "Null" THEN 0
    ELSE IF a.tag = "Null" THEN -1
    ELSE IF b.tag = "Null" THEN 1
    ELSE IF a.tag = "I64" /\ b.tag = "I64" THEN num_cmp(a.num, b.num)
    ELSE IF a.tag = "F64" /\ b.tag = "F64"
         THEN IF a.cls = "nan" /\ b.cls = "nan" THEN 0
              ELSE IF a.cls = "nan" THEN 1
              ELSE IF b.cls = "nan" THEN -1
              ELSE float_cmp(a, b)
    ELSE num_cmp(scalar_type_order(a), scalar_type_order(b))

\* types.rs scalar_tuple_cmp
RECURSIVE scalar_tuple_cmp(_, _)
scalar_tuple_cmp(a, b) ==
    IF a = <<>> \/ b = <<>> THEN num_cmp(Len(a), Len(b))
    ELSE IF scalar_cmp(Head(a), Head(b)) # 0 THEN scalar_cmp(Head(a), Head(b))
    ELSE scalar_tuple_cmp(Tail(a), Tail(b))

\* position of the column called key, 0 if the batch has none
column_position(batch, key) ==
    IF \E i \in DOMAIN batch : batch[i].name = key
    THEN CHOOSE i \in DOMAIN batch :
            /\ batch[i].name = key
            /\ \A j \in DOMAIN batch : batch[j].name = key => i <= j
    ELSE 0

\* the sort tuple of a row
sort_tuple(batch, key_indices, row_idx) ==
    [c \in DOMAIN key_indices |-> batch[key_indices[c]].values[row_idx]]

\* slice::sort_by is stable: a row goes behind every row placed before it
\* that does not compare greater
RECURSIVE stable_insert(_, _, _, _)
stable_insert(batch, key_indices, sorted, row_idx) ==
    IF sorted = <<>> THEN <<row_idx>>
    ELSE IF scalar_tuple_cmp(sort_tuple(batch, key_indices, sorted[Len(sorted)]),
                             sort_tuple(batch, key_indices, row_idx)) <= 0
         THEN Append(sorted, row_idx)
         ELSE Append(stable_insert(batch, key_indices,
                                   SubSeq(sorted, 1, Len(sorted) - 1), row_idx),
                     sorted[Len(sorted)])

RECURSIVE sorted_indices(_, _, _)
sorted_indices(batch, key_indices, n) ==
    IF n = 0 THEN <<>>
    ELSE stable_insert(batch, key_indices, sorted_indices(batch, key_indices, n - 1), n)

\* RowBatch::sort_by_columns
sort_by_columns(batch, sort_keys) ==
    IF num_rows(batch) = 0 THEN [ok |-> TRUE, batch |-> batch]
    ELSE IF \E c \in DOMAIN sort_keys : column_position(batch, sort_keys[c]) = 0
    THEN [ok |-> FALSE, batch |-> batch]
    ELSE LET key_indices == [c \in DOMAIN sort_keys |-> column_position(batch, sort_keys[c])]
             indices == sorted_indices(batch, key_indices, num_rows(batch))
         IN [ok |-> TRUE,
             batch |-> [i \in DOMAIN batch |->
                          [name |-> batch[i].name,
                           values |-> [r \in DOMAIN indices |-> batch[i].values[indices[r]]]]]]

\* ------------------------------------------------------------------------
\* Part IV: ExternalSort::eval_block
\* ------------------------------------------------------------------------
NoSortResult == [done |-> FALSE, ok |-> FALSE, err |-> "", batch |-> <<>>]

SortOk(batch) == [done |-> TRUE, ok |-> TRUE, err |-> "", batch |-> batch]

SortErr(msg) == [done |-> TRUE, ok |-> FALSE, err |-> msg, batch |-> <<>>]

SortInit ==
    /\ sort_in \in SortBatches
    /\ sort_by \in SortKeyLists
    /\ spill_configured \in BOOLEAN
    /\ sort_out = NoSortResult
    /\ sort_live = TRUE

SortOff ==
    /\ sort_in = <<>>
    /\ sort_by = <<>>
    /\ spill_configured = FALSE
    /\ sort_out = NoSortResult
    /\ sort_live = TRUE

\* ExternalSort::eval_block. Without a spill manager the input is sorted in
\* memory. With one, the RunGenerator buffers the input (fewer rows than
\* most_rowsper_run = 10000), finalize flushes it as the only run: sorted,
\* given the next run index and written; the one run is then read back.
ExternalSort_eval_block(change, io_ok) ==
    /\ ~sort_out.done
    /\ sort_live
    /\ LET sorted == sort_by_columns(sort_in, sort_by) IN
       IF ~spill_configured
       THEN /\ sort_out' = IF sorted.ok THEN SortOk(sorted.batch)
                           ELSE SortErr("in-memory sort")
            /\ UNCHANGED <<storage, segments, meta, segbytes, written, next_run,
                           issued, rres, used>>
       ELSE IF ~sorted.ok
       THEN /\ sort_out' = SortErr("sort failed")
            /\ UNCHANGED <<storage, segments, meta, segbytes, written, next_run,
                           issued, rres, used>>
       ELSE LET run_index == next_run
                uncompressed_len == json_len(to_vec(sorted.batch))
                compressed_len == uncompressed_len + change
                supported == codec = CodecNone \/ codec_enabled
            IN /\ next_run' = (next_run + 1) % RunWord
               /\ issued' = Append(issued, run_index)
               /\ IF ~supported \/ ~io_ok
                  THEN /\ sort_out' = SortErr("spill write")
                       /\ UNCHANGED <<storage, segments, meta, segbytes, written,
                                      rres, used>>
                  ELSE /\ compressed_len \in compressed_lens(codec, uncompressed_len)
                       /\ LET segment == stored_segment(sorted.batch, codec, compressed_len)
                              run == segment_meta(sorted.batch, codec, compressed_len,
                                                  run_index)
                              out == read_batch(run, segment, codec_enabled, used, io_ok)
                          IN /\ storage' = storage \cup {run_index}
                             /\ segbytes' = segment
                             /\ meta' = run
                             /\ segments' = segments \cup {run_index}
                             /\ written' = sorted.batch
                             /\ rres' = out.res
                             /\ used' = out.used
                             /\ sort_out' = IF out.res.kind = "Ok"
                                            THEN SortOk(out.res.batch)
                                            ELSE SortErr("read run")
    /\ UNCHANGED <<sort_in, sort_by, spill_configured, sort_live, mergeVars>>
    /\ UNCHANGED <<codec, codec_enabled, dres, capacity, notSpillSort>>

\* the operator is dropped after its evaluation: ExternalSort, RunGenerator
\* and SpillManager have no Drop of their own, so its fields are dropped,
\* the key list and one reference to the shared spill manager, and neither
\* the manager's segment table nor the storage is touched
ExternalSort_drop ==
    /\ sort_out.done
    /\ sort_live
    /\ sort_live' = FALSE
    /\ UNCHANGED <<sort_in, sort_by, spill_configured, sort_out, mergeVars>>
    /\ UNCHANGED <<budgetVars, execVars, spillVars, headerVars, laterVars>>

SortNext ==
    \/ \E change \in LenChanges, io_ok \in BOOLEAN : ExternalSort_eval_block(change, io_ok)
    \/ ExternalSort_drop

\* ------------------------------------------------------------------------
\* Part IV: k_way_merge
\* ------------------------------------------------------------------------
\* key values of the merged runs: a null and two integers
MergeScalars == {ScalarNull, ScalarI64(1), ScalarI64(2)}

\* runs as read back: batches of one column k, sorted as flush_run sorts
SortedRuns ==
    {b \in UNION {{<<[name |-> "k", values |-> ks]>> : ks \in [1..n -> MergeScalars]} :
                  n \in 0..MaxRows} :
        sort_by_columns(b, <<"k">>).batch = b}

\* external.rs compare_scalars
compare_scalars(a, b) ==
    IF a.tag = "Null" /\ b.tag = "Null" THEN 0
    ELSE IF a.tag = "Null" THEN -1
    ELSE IF b.tag = "Null" THEN 1
    ELSE IF a.tag = "I64" /\ b.tag = "I64" THEN num_cmp(a.num, b.num)
    ELSE IF a.tag = "F64" /\ b.tag = "F64"
         THEN IF a.cls = "nan" \/ b.cls = "nan" THEN 0 ELSE float_cmp(a, b)
    ELSE 0

\* external.rs compare_scalar_tuples
RECURSIVE compare_scalar_tuples(_, _)
compare_scalar_tuples(a, b) ==
    IF a = <<>> \/ b = <<>> THEN num_cmp(Len(a), Len(b))
    ELSE IF compare_scalars(Head(a), Head(b)) # 0 THEN compare_scalars(Head(a), Head(b))
    ELSE compare_scalar_tuples(Tail(a), Tail(b))

\* external.rs extract_sort_tuple, the key column being k
extract_sort_tuple(batch, row_idx) == <<batch[1].values[row_idx]>>

\* Ord for MergeEntry: the sort tuples compared in reverse, nothing else
MergeEntry_cmp(self, other) ==
    compare_scalar_tuples(extract_sort_tuple(run_batches[other.run_idx], other.row_idx),
                          extract_sort_tuple(run_batches[self.run_idx], self.row_idx))

MergeInit ==
    /\ run_batches \in UNION {[1..k -> SortedRuns] : k \in 0..MaxMergeRuns}
    /\ mpc = "start"
    /\ heap = {}
    /\ emitted = <<>>

MergeOff ==
    /\ run_batches = <<>>
    /\ mpc = "off"
    /\ heap = {}
    /\ emitted = <<>>

\* k_way_merge up to the merge loop: no run is an error, else the first row
\* of every run that has rows is pushed
k_way_merge_start ==
    /\ mpc = "start"
    /\ IF run_batches = <<>>
       THEN /\ mpc' = "failed"
            /\ heap' = heap
       ELSE /\ mpc' = "loop"
            /\ heap' = {[run_idx |-> i, row_idx |-> 1] :
                           i \in {j \in DOMAIN run_batches : num_rows(run_batches[j]) > 0}}
    /\ UNCHANGED <<run_batches, emitted, sortVars, notSort>>

\* one turn of the merge loop: BinaryHeap::pop hands out a greatest entry
\* under Ord for MergeEntry, and which one of several equal entries is not
\* specified; its row is appended to the output and the next row of its run
\* is pushed
k_way_merge_pop(entry) ==
    /\ mpc = "loop"
    /\ entry \in heap
    /\ \A other \in heap : MergeEntry_cmp(entry, other) >= 0
    /\ emitted' = Append(emitted, entry)
    /\ heap' = (heap \ {entry}) \cup
               (IF entry.row_idx + 1 <= num_rows(run_batches[entry.run_idx])
                THEN {[run_idx |-> entry.run_idx, row_idx |-> entry.row_idx + 1]}
                ELSE {})
    /\ UNCHANGED <<run_batches, mpc, sortVars, notSort>>

\* the heap is empty: the output batch is returned
k_way_merge_return ==
    /\ mpc = "loop"
    /\ heap = {}
    /\ mpc' = "done"
    /\ UNCHANGED <<run_batches, heap, emitted, sortVars, notSort>>

MergeNext ==
    \/ k_way_merge_start
    \/ \E entry \in heap : k_way_merge_pop(entry)
    \/ k_way_merge_return

\* ------------------------------------------------------------------------
\* Part V: RunGenerator (emsqrt-operators/src/sort/run.rs)
\* ------------------------------------------------------------------------
\* RunGenerator.sort_keys
GenSortKeys == <<"k">>

\* the batches handed to add_batch: the batch of no column, which the
\* engine uses as its empty batch, and n rows of one column k, in
\* descending order of k
GenBatches ==
    {<<>>} \cup
    {<<[name |-> "k", values |-> [r \in 1..n |-> ScalarI64(n + 1 - r)]]>> : n \in 0..MaxRows}

\* flush_run, the concatenation: the columns of the first batch, each
\* extended by the values of the column at its position in every later batch
RECURSIVE concat_accumulated(_)
concat_accumulated(acc) ==
    IF Len(acc) = 1 THEN acc[1]
    ELSE LET merged == concat_accumulated(SubSeq(acc, 1, Len(acc) - 1))
             batch == acc[Len(acc)]
         IN [i \in DOMAIN merged |->
                IF i \in DOMAIN batch
                THEN [name |-> merged[i].name,
                      values |-> merged[i].values \o batch[i].values]
                ELSE merged[i]]

RunGenInit ==
    generator \in [accumulator : {<<>>}, accum_rows : {0}, max_rows : 0..MaxWord,
                   gen_runs : {<<>>}, gen_res : {"none"}, gen_calls : {0},
                   gen_last : {"new"}, gen_added : {0}, gen_write_failed : {FALSE}]

\* the generator after one more call, call, that was handed added rows, left
\* acc in the accumulator, counted rows rows, left the runs runs and returned
\* res, its spill write failing or not
generator_after(acc, rows, runs, res, call, added, write_failed) ==
    [accumulator |-> acc, accum_rows |-> rows, max_rows |-> max_rows, gen_runs |-> runs,
     gen_res |-> res, gen_calls |-> gen_calls + 1, gen_last |-> call,
     gen_added |-> gen_added + added,
     gen_write_failed |-> gen_write_failed \/ write_failed]

\* RunGenerator::flush_run on the accumulator acc holding rows rows: an
\* empty accumulator is left alone; else its batches are concatenated and
\* sorted, the run gets the next run index and is written, its metadata is
\* recorded and the accumulator is cleared. An error of the sort or of the
\* write returns before the accumulator is cleared. The budget is not used.
flush_run(acc, rows, call, added, change, io_ok) ==
    IF acc = <<>>
    THEN /\ generator' = generator_after(acc, rows, gen_runs, "Ok", call, added, FALSE)
         /\ UNCHANGED <<storage, segments, meta, segbytes, written, next_run, issued>>
    ELSE LET sorted == sort_by_columns(concat_accumulated(acc), GenSortKeys) IN
         IF ~sorted.ok
         THEN /\ generator' = generator_after(acc, rows, gen_runs, "Err", call, added, FALSE)
              /\ UNCHANGED <<storage, segments, meta, segbytes, written, next_run, issued>>
         ELSE LET run_index == next_run
                  uncompressed_len == json_len(to_vec(sorted.batch))
                  compressed_len == uncompressed_len + change
              IN /\ next_run' = (next_run + 1) % RunWord
                 /\ issued' = Append(issued, run_index)
                 /\ IF ~(codec = CodecNone \/ codec_enabled) \/ ~io_ok
                    THEN /\ generator' = generator_after(acc, rows, gen_runs, "Err", call,
                                                         added, TRUE)
                         /\ UNCHANGED <<storage, segments, meta, segbytes, written>>
                    ELSE /\ compressed_len \in compressed_lens(codec, uncompressed_len)
                         /\ storage' = storage \cup {run_index}
                         /\ segbytes' = stored_segment(sorted.batch, codec, compressed_len)
                         /\ meta' = segment_meta(sorted.batch, codec, compressed_len,
                                                 run_index)
                         /\ segments' = segments \cup {run_index}
                         /\ written' = sorted.batch
                         /\ generator' =
                                generator_after(<<>>, 0,
                                    Append(gen_runs, [rows |-> num_rows(sorted.batch),
                                                      segment |-> run_index]),
                                    "Ok", call, added, FALSE)

\* RunGenerator::add_batch: the batch is pushed and counted, and the
\* accumulator is flushed when the count has reached max_rows
RunGenerator_add_batch(batch, change, io_ok) ==
    /\ gen_calls < MaxGenCalls
    /\ LET acc == Append(accumulator, batch)
           rows == accum_rows + num_rows(batch)
       IN IF rows >= max_rows
          THEN flush_run(acc, rows, "add_batch", num_rows(batch), change, io_ok)
          ELSE /\ generator' = generator_after(acc, rows, gen_runs, "Ok", "add_batch",
                                               num_rows(batch), FALSE)
               /\ UNCHANGED <<storage, segments, meta, segbytes, written, next_run,
                              issued>>
    /\ UNCHANGED <<codec, codec_enabled, rres, dres, notRunGen>>

\* RunGenerator::finalize: what is left in the accumulator is flushed
RunGenerator_finalize(change, io_ok) ==
    /\ gen_calls < MaxGenCalls
    /\ flush_run(accumulator, accum_rows, "finalize", 0, change, io_ok)
    /\ UNCHANGED <<codec, codec_enabled, rres, dres, notRunGen>>

RunGenNext ==
    \/ \E batch \in GenBatches, change \in LenChanges, io_ok \in BOOLEAN :
          RunGenerator_add_batch(batch, change, io_ok)
    \/ \E change \in LenChanges, io_ok \in BOOLEAN : RunGenerator_finalize(change, io_ok)

\* ------------------------------------------------------------------------
\* Part VI: Engine::run, hashing and the operator table
\* (emsqrt-exec/src/runtime.rs, replay.rs; emsqrt-core/src/manifest.rs)
\* ------------------------------------------------------------------------
OpIds == 1..MaxOps

\* operator keys: two of the keys Engine::run builds itself, and a key it
\* leaves to the registry
BuiltinKeys == {"source", "filter"}

BindingKeys == BuiltinKeys \cup {"custom"}

\* PhysicalProgram.bindings: a BTreeMap from some op ids to keys
BindingMaps == UNION {[ids -> BindingKeys] : ids \in SUBSET OpIds}

\* PhysicalPlan: a source, or a unary node over a source
PhysicalPlans ==
    {<<[node |-> "Source", op_id |-> 1]>>,
     <<[node |-> "Unary", op_id |-> 2], [node |-> "Source", op_id |-> 1]>>}

\* te.order: the op id of every block, in order
TeOrders == UNION {[1..n -> OpIds] : n \in 0..MaxOps}

\* width of a digest in bits, and the number of digests
HashBits == 4

HashWord == 2 ^ HashBits

\* the bytes of a serialized value, one number a token
token(x) ==
    CASE x = "Source" -> 1
      [] x = "Unary" -> 2
      [] x = "source" -> 3
      [] x = "filter" -> 4
      [] x = "custom" -> 5

\* an id in a serialized value
id_token(n) == 5 + n

\* serde_json::to_vec of the plan: every node, the outermost first, as its
\* kind and its op id
RECURSIVE plan_to_vec(_)
plan_to_vec(plan) ==
    IF plan = <<>> THEN <<>>
    ELSE <<token(Head(plan).node), id_token(Head(plan).op_id)>> \o plan_to_vec(Tail(plan))

\* serde_json::to_vec of the bindings: the entries of the BTreeMap in
\* ascending order of op id, each the id and the key
RECURSIVE bindings_to_vec(_, _)
bindings_to_vec(bindings, from) ==
    IF from > MaxOps THEN <<>>
    ELSE (IF from \in DOMAIN bindings THEN <<id_token(from), token(bindings[from])>> ELSE <<>>)
         \o bindings_to_vec(bindings, from + 1)

\* serde_json::to_vec of te.order
order_to_vec(te_order) == [i \in DOMAIN te_order |-> id_token(te_order[i])]

\* hash::hash_bytes, a digest of HashBits bits
RECURSIVE hash_bytes(_)
hash_bytes(bytes) ==
    IF bytes = <<>> THEN 7
    ELSE (hash_bytes(SubSeq(bytes, 1, Len(bytes) - 1)) * 5 + bytes[Len(bytes)]) % HashWord

\* xor of two digests, bit by bit
RECURSIVE xor_bits(_, _, _)
xor_bits(a, b, n) ==
    IF n = 0 THEN 0
    ELSE (((a % 2) + (b % 2)) % 2) + 2 * xor_bits(a \div 2, b \div 2, n - 1)

\* runtime.rs and replay.rs xor_hashes
xor_hashes(a, b) == xor_bits(a, b, HashBits)

\* replay::hash_program
hash_program(program) ==
    xor_hashes(hash_bytes(plan_to_vec(program.plan)),
               hash_bytes(bindings_to_vec(program.bindings, 1)))

\* replay::hash_te
hash_te(te_order) == hash_bytes(order_to_vec(te_order))

\* Registry::make
Registry_make(key) == key \in registered

\* the match of Engine::run on a binding key: the keys it builds itself,
\* else what the registry makes
instantiable(key) == key \in BuiltinKeys \/ Registry_make(key)

\* RunManifest::new with the start time mixed into the plan hash
RunManifest_new_stamped(plan_hash, te_hash, started_ms, id) ==
    [id |-> id, plan_hash |-> xor_hashes(plan_hash, started_ms % HashWord),
     te_hash |-> te_hash, started_ms |-> started_ms, finished_ms |-> started_ms]

\* RunManifest::new; id is the Uuid::new_v4 it draws
RunManifest_new(plan_hash, te_hash, started_ms, id) ==
    [id |-> id, plan_hash |-> plan_hash, te_hash |-> te_hash,
     started_ms |-> started_ms, finished_ms |-> started_ms]

\* RunManifest::finish
RunManifest_finish(m, finished_ms) == [m EXCEPT !.finished_ms = finished_ms]

ManifestIds == {1, 2}

NoRun == [kind |-> "none"]

RunErr(err) == [kind |-> "Err", err |-> err]

RunOk(m) == [kind |-> "Ok", manifest |-> m]

RunInit ==
    engine_run \in [rprogram : [plan : PhysicalPlans, bindings : BindingMaps],
                    rte : TeOrders, registered : SUBSET {"custom"}, rnow : {0},
                    rpc : {"start"}, rhash : {[plan_hash |-> 0, te_hash |-> 0]},
                    rops : {{}}, rblock : {1}, revaluated : {<<>>}, run_res : {NoRun},
                    rfirst : {NoRun}]

\* Engine::run: the three hashes and their merge
Engine_run_hash ==
    /\ rpc = "start"
    /\ engine_run' =
           [engine_run EXCEPT
               !.rhash = [plan_hash |->
                              xor_hashes(hash_bytes(plan_to_vec(rprogram.plan)),
                                         hash_bytes(bindings_to_vec(rprogram.bindings, 1))),
                          te_hash |-> hash_bytes(order_to_vec(rte))],
               !.rpc = "instantiate"]
    /\ UNCHANGED notRun

\* the operator table built with the unknown keys left out
Engine_run_instantiate_skipping(now_ms, id) ==
    /\ rpc = "instantiate"
    /\ now_ms \in {rnow, rnow + 1}
    /\ engine_run' =
           [engine_run EXCEPT
               !.rnow = now_ms,
               !.rops = {op \in DOMAIN rprogram.bindings :
                            instantiable(rprogram.bindings[op])},
               !.rpc = "loop",
               !.run_res = RunOk(RunManifest_new(rhash.plan_hash, rhash.te_hash,
                                                 now_ms, id))]
    /\ UNCHANGED notRun

\* Engine::run: the operator table is built from all the bindings, the
\* first key that cannot be instantiated ending the run with a registry
\* error; then the clock is read and the manifest started
Engine_run_instantiate(now_ms, id) ==
    /\ rpc = "instantiate"
    /\ IF \A op \in DOMAIN rprogram.bindings : instantiable(rprogram.bindings[op])
       THEN /\ now_ms \in {rnow, rnow + 1}
            /\ engine_run' =
                   [engine_run EXCEPT
                       !.rnow = now_ms,
                       !.rops = DOMAIN rprogram.bindings,
                       !.rpc = "loop",
                       !.run_res = RunOk(RunManifest_new(rhash.plan_hash, rhash.te_hash,
                                                         now_ms, id))]
       ELSE /\ now_ms = rnow
            /\ id = 1
            /\ engine_run' = [engine_run EXCEPT !.rpc = "failed",
                                                !.run_res = RunErr("Registry")]
    /\ UNCHANGED notRun

\* Engine::run, one iteration of the block loop: a missing dependency ends
\* the run, then an op id without operator ends it, then eval_block is
\* invoked and its error ends the run
Engine_run_block(gathered, ok) ==
    /\ rpc = "loop"
    /\ rblock <= Len(rte)
    /\ engine_run' =
           IF ~gathered
           THEN [engine_run EXCEPT !.rpc = "failed", !.run_res = RunErr("Invalid")]
           ELSE IF rte[rblock] \notin rops
           THEN [engine_run EXCEPT !.rpc = "failed", !.run_res = RunErr("Invalid")]
           ELSE IF ok
           THEN [engine_run EXCEPT !.revaluated = Append(revaluated, rte[rblock]),
                                   !.rblock = rblock + 1]
           ELSE [engine_run EXCEPT !.revaluated = Append(revaluated, rte[rblock]),
                                   !.rpc = "failed",
                                   !.run_res = RunErr("Operator")]
    /\ UNCHANGED notRun

\* Engine::run: the loop is over, the clock is read again and the finished
\* manifest returned
Engine_run_finish_manifest(now_ms) ==
    /\ rpc = "loop"
    /\ rblock > Len(rte)
    /\ now_ms \in {rnow, rnow + 1}
    /\ engine_run' =
           [engine_run EXCEPT
               !.rnow = now_ms,
               !.rpc = "done",
               !.run_res = RunOk(RunManifest_finish(run_res.manifest, now_ms))]
    /\ UNCHANGED notRun

\* Engine::run is called once more with the same program and TE plan, on
\* other data and at another time
Engine_run_again ==
    /\ rpc \in {"done", "failed"}
    /\ rfirst = NoRun
    /\ engine_run' =
           [engine_run EXCEPT
               !.rfirst = run_res,
               !.rpc = "start",
               !.rhash = [plan_hash |-> 0, te_hash |-> 0],
               !.rops = {},
               !.rblock = 1,
               !.revaluated = <<>>,
               !.run_res = NoRun]
    /\ UNCHANGED notRun

RunNext ==
    \/ Engine_run_hash
    \/ \E now_ms \in 0..(rnow + 1), id \in ManifestIds : Engine_run_instantiate(now_ms, id)
    \/ \E gathered \in BOOLEAN, ok \in BOOLEAN : Engine_run_block(gathered, ok)
    \/ \E now_ms \in 0..(rnow + 1) : Engine_run_finish_manifest(now_ms)
    \/ Engine_run_again

\* ------------------------------------------------------------------------
\* Part VII: CloudStorage::run_with_retry
\* ------------------------------------------------------------------------
\* RetryConfig: max_retries, and the two delays in units of time
RetryConfigs ==
    [max_retries : 0..MaxRetries, initial_backoff : 0..MaxBackoff,
     max_backoff : 0..MaxBackoff]

\* what one invocation of op gives: a value, or one of the errors of
\* object_store
OpKinds == {"Ok", "NotFound", "AlreadyExists", "Generic"}

\* the result of the n-th invocation, the value or the error text its own
OpResult(kind, n) == [kind |-> kind, of_attempt |-> n]

NotReturned == [kind |-> "none"]

\* MemResult: Ok(value), or MemError::Storage(format!("{err}"))
RetryOk(result) == [kind |-> "Ok", value |-> result.of_attempt]

RetryErr(result) == [kind |-> "Storage", err |-> result.kind, value |-> result.of_attempt]

\* is_retryable with only not-found left out
is_retryable_but_not_found(err) == err # "NotFound"

\* is_retryable
is_retryable(err) ==
    CASE err = "NotFound" -> FALSE
      [] err = "AlreadyExists" -> FALSE
      [] OTHER -> TRUE

\* std::cmp::min
duration_min(a, b) == IF a <= b THEN a ELSE b

\* run_with_retry is entered: attempt = 0, backoff = retry.initial_backoff
RetryInit ==
    retry_call \in
        {[retry |-> config, retry_not_found |-> flag, attempt |-> 0,
          backoff |-> config.initial_backoff, retry_pc |-> "loop", op_results |-> <<>>,
          slept |-> <<>>, retry_res |-> NotReturned] :
            config \in RetryConfigs, flag \in BOOLEAN}

\* run_with_retry, one iteration of the loop: op is invoked; its value is
\* returned; a not-found error is returned when retry_not_found is false;
\* any error is returned when the retries are used up or it is not
\* retryable; else the thread sleeps backoff and the delay doubles up to
\* max_backoff
run_with_retry_iteration(kind) ==
    /\ retry_pc = "loop"
    /\ LET result == OpResult(kind, Len(op_results) + 1)
           is_not_found == kind = "NotFound"
           invoked == [retry_call EXCEPT !.op_results = Append(op_results, result)]
       IN  retry_call' =
               IF kind = "Ok"
               THEN [invoked EXCEPT !.retry_res = RetryOk(result), !.retry_pc = "returned"]
               ELSE IF is_not_found /\ ~retry_not_found
               THEN [invoked EXCEPT !.retry_res = RetryErr(result),
                                    !.retry_pc = "returned"]
               ELSE IF attempt >= retry.max_retries \/ ~is_retryable(kind)
               THEN [invoked EXCEPT !.retry_res = RetryErr(result),
                                    !.retry_pc = "returned"]
               ELSE [invoked EXCEPT
                        !.attempt = attempt + 1,
                        !.slept = Append(slept, backoff),
                        !.backoff = duration_min(backoff * 2, retry.max_backoff)]
    /\ UNCHANGED notRetry

RetryNext == \E kind \in OpKinds : run_with_retry_iteration(kind)

\* ------------------------------------------------------------------------
\* Part VIII: parse_yaml_pipeline
\* ------------------------------------------------------------------------
\* the variants of Step
StepOps == {"Scan", "Filter", "Project", "Map", "Sink", "Window", "Lateral"}

\* a step: its variant and its fields, here one of two values
Steps == [op : StepOps, arg : 1..2]

\* doc.steps
Pipelines == UNION {[1..n -> Steps] : n \in 0..MaxSteps}

\* Option<LogicalPlan>
NonePlan == [some |-> FALSE]

SomePlan(plan) == [some |-> TRUE, plan |-> plan]

NotParsed == [kind |-> "none"]

YamlErr(msg) == [kind |-> "Err", msg |-> msg]

YamlOk(plan) == [kind |-> "Ok", plan |-> plan]

YamlInit ==
    yaml_call \in [steps : Pipelines, ypos : {1}, ycur : {NonePlan}, yres : {NotParsed}]

\* the match on (step, cur) with a scan over an existing plan starting the
\* plan again
step_plan_rescanning(step, cur) ==
    IF step.op = "Scan"
    THEN YamlOk([node |-> "Scan", arg |-> step.arg])
    ELSE IF cur.some
    THEN YamlOk([node |-> step.op, arg |-> step.arg, input |-> cur.plan])
    ELSE YamlErr("first step must be 'scan'")

\* the match on (step, cur): a scan starts the plan, a second scan is an
\* error, every other step wraps the plan so far, and is an error without
\* one
step_plan(step, cur) ==
    IF step.op = "Scan" /\ ~cur.some
    THEN YamlOk([node |-> "Scan", arg |-> step.arg])
    ELSE IF step.op = "Scan"
    THEN YamlErr("multiple scans not supported")
    ELSE IF cur.some
    THEN YamlOk([node |-> step.op, arg |-> step.arg, input |-> cur.plan])
    ELSE YamlErr("first step must be 'scan'")

\* parse_yaml_pipeline, one iteration of the loop over doc.steps
parse_yaml_pipeline_step ==
    /\ yres = NotParsed
    /\ ypos <= Len(steps)
    /\ LET next == step_plan(steps[ypos], ycur)
       IN  yaml_call' =
               IF next.kind = "Ok"
               THEN [yaml_call EXCEPT !.ycur = SomePlan(next.plan), !.ypos = ypos + 1]
               ELSE [yaml_call EXCEPT !.yres = next]
    /\ UNCHANGED notYaml

\* parse_yaml_pipeline after the loop: no plan is an error, else the plan
\* is returned
parse_yaml_pipeline_return ==
    /\ yres = NotParsed
    /\ ypos > Len(steps)
    /\ yaml_call' =
           [yaml_call EXCEPT
               !.yres = IF ycur.some THEN YamlOk(ycur.plan) ELSE YamlErr("empty pipeline")]
    /\ UNCHANGED notYaml

YamlNext ==
    \/ parse_yaml_pipeline_step
    \/ parse_yaml_pipeline_return

\* ------------------------------------------------------------------------
\* Part IX: choose_block_size
\* ------------------------------------------------------------------------
\* WorkEstimate
WorkEstimates ==
    [total_rows : 0..MaxEstimate, total_bytes : 0..MaxEstimate, max_fan_in : 0..MaxFanIn]

\* the result of rounding an f64 quotient of two quotients, seen through its
\* truncation to an integer: the exact integer part, or a neighbour of it
Roundings == {-1, 0, 1}

int_max(a, b) == IF a >= b THEN a ELSE b

int_min(a, b) == IF a <= b THEN a ELSE b

\* u64::clamp
clamp(x, lo, hi) == int_max(lo, int_min(x, hi))

\* f64::sqrt(n as f64) as u64
sqrt_floor(n) == CHOOSE r \in 0..n : r * r <= n /\ (r + 1) * (r + 1) > n

\* k * max_fan_in.max(1.0) + 1.0, with k = 3.0
divisor(work) == 3 * int_max(work.max_fan_in, 1) + 1

\* (target_block_bytes / bytes_per_row) as u64, where target_block_bytes is
\* (mem_cap_bytes / divisor).max(1.0) and bytes_per_row is
\* (total_bytes / total_rows).max(1.0); the quotients are kept as fractions
target_rows(mem_cap_bytes, work, rounding) ==
    LET tnum == IF mem_cap_bytes >= divisor(work) THEN mem_cap_bytes ELSE 1
        tden == IF mem_cap_bytes >= divisor(work) THEN divisor(work) ELSE 1
        bnum == IF work.total_bytes >= work.total_rows THEN work.total_bytes ELSE 1
        bden == IF work.total_bytes >= work.total_rows THEN work.total_rows ELSE 1
    IN  int_max(((tnum * bden) \div (tden * bnum)) + rounding, 0)

\* choose_block_size without the clamp to the row total
choose_block_size_unclamped(mem_cap_bytes, work, rounding) ==
    LET rows_per_block ==
            IF work.total_bytes > 0 /\ work.total_rows > 0
            THEN int_max(target_rows(mem_cap_bytes, work, rounding), 1)
            ELSE int_max(sqrt_floor(work.total_rows), 1)
    IN  [rows_per_block |-> int_max(rows_per_block, 1)]

\* choose_block_size
choose_block_size(mem_cap_bytes, work, rounding) ==
    LET rows_per_block ==
            IF work.total_bytes > 0 /\ work.total_rows > 0
            THEN clamp(int_max(target_rows(mem_cap_bytes, work, rounding), 1),
                       1, int_max(work.total_rows, 1))
            ELSE int_max(sqrt_floor(work.total_rows), 1)
    IN  [rows_per_block |-> int_max(rows_per_block, 1)]

SizeInit ==
    block_size \in [bs_in : [mem_cap_bytes : 0..MaxCapBytes, work : WorkEstimates],
                    bs_out : {[done |-> FALSE, rows_per_block |-> 0]}]

\* a call of choose_block_size
choose_block_size_call(rounding) ==
    /\ ~bs_out.done
    /\ block_size' =
           [block_size EXCEPT
               !.bs_out = [done |-> TRUE,
                           rows_per_block |->
                               choose_block_size(bs_in.mem_cap_bytes, bs_in.work,
                                                 rounding).rows_per_block]]
    /\ UNCHANGED notSize

SizeNext == \E rounding \in Roundings : choose_block_size_call(rounding)

\* ------------------------------------------------------------------------
\* Part X: Filter
\* ------------------------------------------------------------------------
\* floats are held in units of half an f64::EPSILON: EPSILON is two units
\* and, scaled down, 1.0 is four
FloatEpsilon == 2

FloatOne == 4

\* values of the filtered column: a null, two integers, the floats 0.0, half
\* an EPSILON and 1.0, and infinity
FilterScalars ==
    {ScalarNull, ScalarI64(0), ScalarI64(1), ScalarF64(0), ScalarF64(1),
     ScalarF64(FloatOne), ScalarInf}

\* input batches: the column x and a column y of the same length
FilterBatches ==
    UNION {{<<[name |-> "x", values |-> xs], [name |-> "y", values |-> ys]>> :
               xs \in [1..n -> FilterScalars], ys \in [1..n -> PayloadScalars]} :
           n \in 0..MaxRows}

\* the operators in the order parse_simple_predicate looks for them
FilterOps == <<"==", "!=", "<=", ">=", "<", ">">>

\* literals: "0", "1", "inf" and "tiny", the text of half an EPSILON
FilterLiterals == {"0", "1", "inf", "tiny"}

\* predicates, in words: a column, an operator and a literal; the column z
\* is not in the batch
FilterExprs ==
    {<<col, FilterOps[i], lit>> : col \in {"x", "z"}, i \in DOMAIN FilterOps,
                                  lit \in FilterLiterals}

\* Filter.expr: None, or a predicate
FilterExprOptions == {[some |-> FALSE, words |-> <<>>]} \cup
                     {[some |-> TRUE, words |-> e] : e \in FilterExprs}

\* str::parse::<i64>
parse_i64(literal) ==
    CASE literal = "0" -> [ok |-> TRUE, num |-> 0]
      [] literal = "1" -> [ok |-> TRUE, num |-> 1]
      [] OTHER -> [ok |-> FALSE, num |-> 0]

\* str::parse::<f64>
parse_f64(literal) ==
    CASE literal = "0" -> [ok |-> TRUE, val |-> ScalarF64(0)]
      [] literal = "1" -> [ok |-> TRUE, val |-> ScalarF64(FloatOne)]
      [] literal = "tiny" -> [ok |-> TRUE, val |-> ScalarF64(1)]
      [] literal = "inf" -> [ok |-> TRUE, val |-> ScalarInf]
      [] OTHER -> [ok |-> FALSE, val |-> ScalarNull]

\* expr.find(op): the position of the first word equal to op, 0 for none
find_op(words, op) ==
    IF \E i \in DOMAIN words : words[i] = op
    THEN CHOOSE i \in DOMAIN words : words[i] = op /\ \A j \in 1..(i - 1) : words[j] # op
    ELSE 0

\* parse_simple_predicate: the first operator of the list found in the
\* expression splits it
parse_simple_predicate(words) ==
    IF \E k \in DOMAIN FilterOps : find_op(words, FilterOps[k]) # 0
    THEN LET k == CHOOSE k \in DOMAIN FilterOps :
                      /\ find_op(words, FilterOps[k]) # 0
                      /\ \A l \in 1..(k - 1) : find_op(words, FilterOps[l]) = 0
             pos == find_op(words, FilterOps[k])
         IN  [ok |-> TRUE, col |-> SubSeq(words, 1, pos - 1), op |-> FilterOps[k],
              lit |-> SubSeq(words, pos + 1, Len(words))]
    ELSE [ok |-> FALSE, col |-> <<>>, op |-> "", lit |-> <<>>]

\* (f - lit).abs() of two floats that are not NaN: a float, NaN for the
\* difference of two infinities
float_abs_diff(f, lit) ==
    IF f.cls = "inf" /\ lit.cls = "inf" THEN ScalarNaN
    ELSE IF f.cls = "inf" \/ lit.cls = "inf" THEN ScalarInf
    ELSE ScalarF64(IF f.num >= lit.num THEN f.num - lit.num ELSE lit.num - f.num)

\* d < f64::EPSILON, false of NaN
below_epsilon(d) == d.cls = "fin" /\ d.num < FloatEpsilon

\* d >= f64::EPSILON, false of NaN
not_below_epsilon(d) == d.cls = "inf" \/ (d.cls = "fin" /\ d.num >= FloatEpsilon)

\* the comparison of two integers under op
int_predicate(i, op, lit) ==
    CASE op = "==" -> i = lit
      [] op = "!=" -> i # lit
      [] op = "<" -> i < lit
      [] op = "<=" -> i <= lit
      [] op = ">" -> i > lit
      [] op = ">=" -> i >= lit

\* the comparison of two floats under op: equality within EPSILON, order as
\* partial_cmp gives it
float_predicate(f, op, lit) ==
    CASE op = "==" -> below_epsilon(float_abs_diff(f, lit))
      [] op = "!=" -> not_below_epsilon(float_abs_diff(f, lit))
      [] op = "<" -> float_cmp(f, lit) < 0
      [] op = "<=" -> float_cmp(f, lit) <= 0
      [] op = ">" -> float_cmp(f, lit) > 0
      [] op = ">=" -> float_cmp(f, lit) >= 0

\* eval_predicate: a null is false; an integer and a float are compared
\* with the literal parsed as their type, an error when it does not parse
eval_predicate(val, op, literal) ==
    IF val.tag = "Null" THEN [ok |-> TRUE, keep |-> FALSE]
    ELSE IF val.tag = "I64"
    THEN IF parse_i64(literal).ok
         THEN [ok |-> TRUE, keep |-> int_predicate(val.num, op, parse_i64(literal).num)]
         ELSE [ok |-> FALSE, keep |-> FALSE]
    ELSE IF parse_f64(literal).ok
         THEN [ok |-> TRUE, keep |-> float_predicate(val, op, parse_f64(literal).val)]
         ELSE [ok |-> FALSE, keep |-> FALSE]

\* the values of a column at the kept rows, in order
RECURSIVE filter_values(_, _)
filter_values(values, keep) ==
    IF values = <<>> THEN <<>>
    ELSE (IF Head(keep) THEN <<Head(values)>> ELSE <<>>)
         \o filter_values(Tail(values), Tail(keep))

FilterErr == [kind |-> "Err", batch |-> <<>>]

FilterOk(batch) == [kind |-> "Ok", batch |-> batch]

\* Filter::eval_block: no expression passes the input through; else the
\* predicate is parsed, the column looked up, the predicate evaluated on
\* every value of it, and every column cut down to the kept rows
Filter_eval_block(input, expr) ==
    IF ~expr.some THEN FilterOk(input)
    ELSE LET parsed == parse_simple_predicate(expr.words)
         IN  IF ~parsed.ok \/ Len(parsed.col) # 1 \/ Len(parsed.lit) # 1 THEN FilterErr
             ELSE IF ~\E c \in DOMAIN input : input[c].name = parsed.col[1] THEN FilterErr
             ELSE LET col_idx == CHOOSE c \in DOMAIN input :
                                     /\ input[c].name = parsed.col[1]
                                     /\ \A d \in 1..(c - 1) : input[d].name # parsed.col[1]
                      col == input[col_idx]
                      evals == [i \in DOMAIN col.values |->
                                   eval_predicate(col.values[i], parsed.op, parsed.lit[1])]
                  IN  IF \E i \in DOMAIN evals : ~evals[i].ok THEN FilterErr
                      ELSE FilterOk([c \in DOMAIN input |->
                               [name |-> input[c].name,
                                values |-> filter_values(input[c].values,
                                               [i \in DOMAIN evals |-> evals[i].keep])]])

FilterInit ==
    filter_call \in [f_in : [batch : FilterBatches, expr : FilterExprOptions],
                     f_out : {[kind |-> "none", batch |-> <<>>]}]

\* a call of Filter::eval_block
Filter_eval_block_call ==
    /\ f_out.kind = "none"
    /\ filter_call' = [filter_call EXCEPT !.f_out = Filter_eval_block(f_in.batch, f_in.expr)]
    /\ UNCHANGED notFilter

FilterNext == Filter_eval_block_call

\* ------------------------------------------------------------------------
\* Part XI: WindowOp
\* ------------------------------------------------------------------------
\* WindowFnSpec: RowNumber, and Sum over a column
WindowRowNumber == [kind |-> "RowNumber", column |-> "", alias |-> "rn"]

WindowSum(column) == [kind |-> "Sum", column |-> column, alias |-> "total"]

\* WindowOp.functions: both functions, or the row number alone
WindowFunctionLists == {<<WindowRowNumber, WindowSum("v")>>, <<WindowRowNumber>>}

\* values of the partition column: two finite floats and NaN
PartitionScalars == {ScalarF64(1), ScalarF64(2), ScalarNaN}

\* input batches: a partition column p, an order column o and a value
\* column v of the same length
WindowBatches(most_rows) ==
    UNION {{<<[name |-> "p", values |-> ps], [name |-> "o", values |-> os],
              [name |-> "v", values |-> vs]>> :
               ps \in [1..n -> PartitionScalars], os \in [1..n -> PayloadScalars],
               vs \in [1..n -> PayloadScalars]} :
           n \in 0..most_rows}

\* name_to_index: the index of the last column of that name, 0 for none
name_to_index(batch, name) ==
    IF \E c \in DOMAIN batch : batch[c].name = name
    THEN CHOOSE c \in DOMAIN batch :
             batch[c].name = name /\ \A d \in (c + 1)..Len(batch) : batch[d].name # name
    ELSE 0

\* the sort key of a row: its values of the key columns, a null for a
\* column the batch does not have
window_key(batch, key_cols, row_idx) ==
    [k \in DOMAIN key_cols |->
        IF name_to_index(batch, key_cols[k]) # 0
        THEN batch[name_to_index(batch, key_cols[k])].values[row_idx]
        ELSE ScalarNull]

\* window/mod.rs scalar_cmp: nulls first, partial_cmp with Equal for what
\* it leaves undefined, Equal for two different variants
window_scalar_cmp(x, y) ==
    IF x.tag = "Null" /\ y.tag = "Null" THEN 0
    ELSE IF x.tag = "Null" THEN -1
    ELSE IF y.tag = "Null" THEN 1
    ELSE IF x.tag = "I64" /\ y.tag = "I64" THEN num_cmp(x.num, y.num)
    ELSE IF x.tag = "F64" /\ y.tag = "F64"
         THEN IF x.cls = "nan" \/ y.cls = "nan" THEN 0 ELSE float_cmp(x, y)
    ELSE 0

\* window/mod.rs scalar_tuple_cmp
RECURSIVE window_tuple_cmp(_, _)
window_tuple_cmp(a, b) ==
    IF a = <<>> \/ b = <<>> THEN num_cmp(Len(a), Len(b))
    ELSE IF window_scalar_cmp(Head(a), Head(b)) # 0 THEN window_scalar_cmp(Head(a), Head(b))
    ELSE window_tuple_cmp(Tail(a), Tail(b))

\* slice::sort_by on a short slice, an insertion sort: the tuple moves left
\* past every tuple it compares Less than
RECURSIVE window_insert(_, _)
window_insert(sorted, t) ==
    IF sorted = <<>> THEN <<t>>
    ELSE IF window_tuple_cmp(t.key, sorted[Len(sorted)].key) < 0
    THEN Append(window_insert(SubSeq(sorted, 1, Len(sorted) - 1), t), sorted[Len(sorted)])
    ELSE Append(sorted, t)

RECURSIVE window_sort(_, _)
window_sort(tuples, n) ==
    IF n = 0 THEN <<>> ELSE window_insert(window_sort(tuples, n - 1), tuples[n])

\* order_indices: the row indices in the order of their sorted keys
order_indices(batch, partitions, order_by) ==
    LET tuples == [row_idx \in 1..num_rows(batch) |->
                      [key |-> window_key(batch, partitions \o order_by, row_idx),
                       idx |-> row_idx]]
        sorted == window_sort(tuples, Len(tuples))
    IN  [i \in DOMAIN sorted |-> sorted[i].idx]

\* extract_partition_key: fails on a partition column the batch does not
\* have
extract_partition_key(batch, partitions, row_idx) ==
    IF \E k \in DOMAIN partitions : name_to_index(batch, partitions[k]) = 0
    THEN [ok |-> FALSE, key |-> <<>>]
    ELSE [ok |-> TRUE, key |-> window_key(batch, partitions, row_idx)]

\* PartialEq of Scalar: NaN differs from itself
scalar_eq(x, y) == x = y /\ ~(x.tag = "F64" /\ x.cls = "nan")

\* PartialEq of Vec<Scalar>
key_eq(a, b) == Len(a) = Len(b) /\ \A k \in DOMAIN a : scalar_eq(a[k], b[k])

\* value_as_f64 of a null, an integer or a finite float
value_as_f64(value) == IF value.tag = "Null" THEN 0 ELSE value.num

\* the loop of eval_block over order_indices, after n rows: the partition
\* key, the counter, the running sums and the computed columns
RECURSIVE window_scan(_, _, _, _, _)
window_scan(batch, partitions, functions, indices, n) ==
    IF n = 0
    THEN [ok |-> TRUE, partition_initialized |-> FALSE, current_partition |-> <<>>,
          row_counter |-> 0, running_sums |-> [f \in DOMAIN functions |-> 0],
          computed_columns |->
              [f \in DOMAIN functions |-> [r \in 1..num_rows(batch) |-> ScalarNull]]]
    ELSE LET before == window_scan(batch, partitions, functions, indices, n - 1)
             sorted_pos == indices[n]
             part_key == extract_partition_key(batch, partitions, sorted_pos)
             reset == ~before.partition_initialized
                      \/ ~key_eq(part_key.key, before.current_partition)
             row_counter == (IF reset THEN 0 ELSE before.row_counter) + 1
             value(f) == value_as_f64(
                             batch[name_to_index(batch, functions[f].column)].values[sorted_pos])
             running_sums == [f \in DOMAIN functions |->
                                 (IF reset THEN 0 ELSE before.running_sums[f])
                                 + (IF functions[f].kind = "Sum" THEN value(f) ELSE 0)]
         IN  IF ~before.ok \/ ~part_key.ok THEN [before EXCEPT !.ok = FALSE]
             ELSE IF \E f \in DOMAIN functions :
                        /\ functions[f].kind = "Sum"
                        /\ name_to_index(batch, functions[f].column) = 0
             THEN [before EXCEPT !.ok = FALSE]
             ELSE [ok |-> TRUE, partition_initialized |-> TRUE,
                   current_partition |-> IF reset THEN part_key.key
                                         ELSE before.current_partition,
                   row_counter |-> row_counter,
                   running_sums |-> running_sums,
                   computed_columns |->
                       [f \in DOMAIN functions |->
                           [before.computed_columns[f] EXCEPT ![sorted_pos] =
                               IF functions[f].kind = "RowNumber"
                               THEN ScalarI64(row_counter)
                               ELSE ScalarF64(running_sums[f])]]]

WindowErr == [kind |-> "Err", batch |-> <<>>]

WindowOk(batch) == [kind |-> "Ok", batch |-> batch]

\* WindowOp::eval_block: the rows are ordered by partition and order
\* columns, the functions computed along that order, and one column per
\* function pushed after the input's columns
WindowOp_eval_block(input, partitions, order_by, functions) ==
    LET indices == order_indices(input, partitions, order_by)
        scan == window_scan(input, partitions, functions, indices, Len(indices))
    IN  IF ~scan.ok THEN WindowErr
        ELSE WindowOk(input \o [f \in DOMAIN functions |->
                                   [name |-> functions[f].alias,
                                    values |-> scan.computed_columns[f]]])

WindowInit ==
    window_call \in
        [w_in : [batch : WindowBatches(MaxWindowRows), partitions : {<<>>, <<"p">>, <<"z">>},
                 order_by : {<<>>, <<"o">>}, functions : WindowFunctionLists],
         w_out : {[kind |-> "none", batch |-> <<>>]}]

\* a call of WindowOp::eval_block
WindowOp_eval_block_call ==
    /\ w_out.kind = "none"
    /\ window_call' =
           [window_call EXCEPT
               !.w_out = WindowOp_eval_block(w_in.batch, w_in.partitions, w_in.order_by,
                                             w_in.functions)]
    /\ UNCHANGED notWindow

WindowNext == WindowOp_eval_block_call

\* ------------------------------------------------------------------------
\* Part XII: LateralExplodeOp
\* ------------------------------------------------------------------------
\* Scalar::Str: a string is the list of its characters
ScalarStr(text) == [tag |-> "Str", num |-> 0, cls |-> "fin", text |-> text]

ExplodeChars == {"a", ","}

\* the strings of at most MaxText characters
ExplodeTexts == UNION {[1..n -> ExplodeChars] : n \in 0..MaxText}

\* values of the target column: strings, nulls and integers
TargetScalars ==
    {ScalarStr(t) : t \in ExplodeTexts} \cup {ScalarNull, ScalarI64(1), ScalarI64(11)}

\* LateralExplodeOp.delimiter
Delimiters == {<<>>, <<",">>, <<",", ",">>, <<"1">>}

\* input batches: a column "id" numbering the rows and a column "tags", or
\* the column "tags" alone, of one length
ExplodeBatchesOf(n) ==
    UNION {{<<[name |-> "id", values |-> [i \in 1..n |-> ScalarI64(i)]],
              [name |-> "tags", values |-> v]>>,
            <<[name |-> "tags", values |-> v]>>} : v \in [1..n -> TargetScalars]}

ExplodeBatches(most_rows) == UNION {ExplodeBatchesOf(n) : n \in 0..most_rows}

\* i64::to_string for 0..99
DigitChars == <<"0", "1", "2", "3", "4", "5", "6", "7", "8", "9">>

i64_to_string(n) ==
    IF n < 10 THEN <<DigitChars[n + 1]>>
    ELSE <<DigitChars[(n \div 10) + 1], DigitChars[(n % 10) + 1]>>

\* scalar_to_string
scalar_to_string(value) ==
    CASE value.tag = "Null" -> <<>>
      [] value.tag = "I64" -> i64_to_string(value.num)
      [] value.tag = "Str" -> value.text

\* str::split for a pattern that is not empty: the pieces between the
\* matches of the pattern, found from the left without overlap; cur is the
\* piece in progress
RECURSIVE split_from(_, _, _)
split_from(text, pat, cur) ==
    IF Len(text) < Len(pat) THEN <<cur \o text>>
    ELSE IF SubSeq(text, 1, Len(pat)) = pat
         THEN <<cur>> \o split_from(SubSeq(text, Len(pat) + 1, Len(text)), pat, <<>>)
         ELSE split_from(Tail(text), pat, Append(cur, Head(text)))

\* str::split: the empty pattern matches at every character boundary, the
\* start and the end of the text included
str_split(text, pat) ==
    IF pat = <<>>
    THEN <<<<>>>> \o [i \in 1..Len(text) |-> <<text[i]>>] \o <<<<>>>>
    ELSE split_from(text, pat, <<>>)

\* the parts of the target value of a row
explode_parts(value, delimiter) ==
    LET text == CASE value.tag = "Str" -> value.text
                  [] value.tag = "Null" -> <<>>
                  [] OTHER -> scalar_to_string(value)
    IN  str_split(text, delimiter)

\* the values of an output column had the value of a row been pushed once
\* for the row, outside the loop over its parts
RECURSIVE pushed_values_once_a_row(_, _)
pushed_values_once_a_row(values, parts) ==
    IF parts = <<>> THEN <<>>
    ELSE <<Head(values)>> \o pushed_values_once_a_row(Tail(values), Tail(parts))

\* the values pushed to an output column: the value of each row, once for
\* every part of that row
RECURSIVE pushed_values(_, _)
pushed_values(values, parts) ==
    IF parts = <<>> THEN <<>>
    ELSE [k \in 1..Len(Head(parts)) |-> Head(values)]
         \o pushed_values(Tail(values), Tail(parts))

\* the values pushed to the alias column: every part of every row
RECURSIVE pushed_parts(_)
pushed_parts(parts) ==
    IF parts = <<>> THEN <<>>
    ELSE [k \in 1..Len(Head(parts)) |-> ScalarStr(Head(parts)[k])]
         \o pushed_parts(Tail(parts))

ExplodeErr == [kind |-> "Err", batch |-> <<>>]

ExplodeOk(batch) == [kind |-> "Ok", batch |-> batch]

\* LateralExplodeOp::eval_block; inputs holds no batch or one
LateralExplodeOp_eval_block(inputs, op) ==
    IF inputs = <<>> THEN ExplodeErr
    ELSE LET input == inputs[1]
             target_idx == name_to_index(input, op.column)
         IN  IF target_idx = 0 THEN ExplodeErr
             ELSE LET parts == [row_idx \in 1..num_rows(input) |->
                                   explode_parts(input[target_idx].values[row_idx],
                                                 op.delimiter)]
                      output_columns ==
                          [c \in DOMAIN input |->
                              [name |-> input[c].name,
                               values |-> pushed_values(
                                   SubSeq(input[c].values, 1, num_rows(input)), parts)]]
                      alias_column == [name |-> op.alias, values |-> pushed_parts(parts)]
                  IN  ExplodeOk(Append(output_columns, alias_column))

ExplodeOps == [column : {"tags", "values"}, alias : {"tag"}, delimiter : Delimiters]

ExplodeInit ==
    explode_call \in
        [x_in : [inputs : {<<>>} \cup {<<b>> : b \in ExplodeBatches(MaxExplodeRows)}, op : ExplodeOps],
         x_out : {[kind |-> "none", batch |-> <<>>]}]

\* a call of LateralExplodeOp::eval_block
LateralExplodeOp_eval_block_call ==
    /\ x_out.kind = "none"
    /\ explode_call' =
           [explode_call EXCEPT !.x_out = LateralExplodeOp_eval_block(x_in.inputs, x_in.op)]
    /\ UNCHANGED notExplode

ExplodeNext == LateralExplodeOp_eval_block_call

\* ------------------------------------------------------------------------
\* Part XIII: FrontierTracker and compute_max_frontier
\* ------------------------------------------------------------------------
\* edge lists handed to FrontierTracker::new directly: at most MaxEdges
\* pairs (u, v), v depending on u
EdgeLists == UNION {[1..n -> BlockSlots \X BlockSlots] : n \in 0..MaxEdges}

\* the edges compute_max_frontier builds from the blocks i.. of an order:
\* (dep, block) for each block and each of its deps, in that order
RECURSIVE order_edges(_, _)
order_edges(blocks, i) ==
    IF i > Len(blocks) THEN <<>>
    ELSE [k \in 1..Len(blocks[i]) |-> <<blocks[i][k], i>>] \o order_edges(blocks, i + 1)

\* the blocks that occur in an edge
edge_blocks(edge_list) ==
    {edge_list[k][1] : k \in DOMAIN edge_list} \cup {edge_list[k][2] : k \in DOMAIN edge_list}

\* the targets of the edges leaving u, in edge order
RECURSIVE edge_targets(_, _)
edge_targets(edge_list, u) ==
    IF edge_list = <<>> THEN <<>>
    ELSE (IF Head(edge_list)[1] = u THEN <<Head(edge_list)[2]>> ELSE <<>>)
         \o edge_targets(Tail(edge_list), u)

\* the lists that hold every element of the set S once: the orders in which
\* a HashMap may be iterated
iteration_orders(S) ==
    {p \in [1..Cardinality(S) -> S] : \A i, j \in DOMAIN p : p[i] = p[j] => i = j}

\* the tracker before FrontierTracker::new
NoTracker(kind, blocks, edge_list) ==
    [input_kind |-> kind, forder |-> blocks, edges |-> edge_list,
     in_degree |-> <<>>, dependents |-> <<>>, ready |-> <<>>, live |-> {},
     max_frontier |-> 0, depth |-> 0, yielded |-> <<>>, fpc |-> "start", cmf |-> -1]

\* FrontierTracker::new: in_degree counts the edges into each block,
\* dependents lists the targets of each block (no entry reads as no target),
\* ready holds the blocks of in-degree 0 in the iteration order rdy
FrontierTracker_new(t, edge_list, rdy) ==
    [t EXCEPT
        !.edges = edge_list,
        !.in_degree = [b \in edge_blocks(edge_list) |->
                          Cardinality({k \in DOMAIN edge_list : edge_list[k][2] = b})],
        !.dependents = [b \in edge_blocks(edge_list) |-> edge_targets(edge_list, b)],
        !.ready = rdy,
        !.live = {},
        !.max_frontier = 0,
        !.depth = 0,
        !.fpc = "stepping"]

\* the orders in which new may list the blocks of in-degree 0
ready_orders(edge_list) ==
    iteration_orders({b \in edge_blocks(edge_list) :
                     \A k \in DOMAIN edge_list : edge_list[k][2] # b})

\* the loop had it pushed every dependent it decrements
RECURSIVE advance_dependents_pushing_all(_, _, _)
advance_dependents_pushing_all(nexts, deg, rdy) ==
    IF nexts = <<>> THEN [in_degree |-> deg, ready |-> rdy]
    ELSE LET v == Head(nexts)
         IN  advance_dependents_pushing_all(Tail(nexts), [deg EXCEPT ![v] = deg[v] - 1],
                                            Append(rdy, v))

\* the loop of step over the dependents of the block: decrement the
\* in-degree of each and push it to ready when it reaches 0
RECURSIVE advance_dependents(_, _, _)
advance_dependents(nexts, deg, rdy) ==
    IF nexts = <<>> THEN [in_degree |-> deg, ready |-> rdy]
    ELSE LET v == Head(nexts)
             d == deg[v] - 1
         IN  advance_dependents(Tail(nexts), [deg EXCEPT ![v] = d],
                                IF d = 0 THEN Append(rdy, v) ELSE rdy)

FrontierInit ==
    tracker \in {NoTracker("order", blocks, <<>>) : blocks \in PlanSet(MaxBlocks)}
                \cup {NoTracker("edges", <<>>, edge_list) : edge_list \in EdgeLists}

\* a direct call of FrontierTracker::new
FrontierTracker_new_call ==
    /\ tracker.fpc = "start"
    /\ tracker.input_kind = "edges"
    /\ \E rdy \in ready_orders(edges) :
           tracker' = FrontierTracker_new(tracker, edges, rdy)
    /\ UNCHANGED notFrontier

\* compute_max_frontier up to its loop: 0 for the empty order, else the
\* edges are built and the tracker made
compute_max_frontier_start ==
    /\ tracker.fpc = "start"
    /\ tracker.input_kind = "order"
    /\ IF tracker.forder = <<>>
       THEN tracker' = [tracker EXCEPT !.fpc = "returned", !.cmf = 0]
       ELSE \E rdy \in ready_orders(order_edges(tracker.forder, 1)) :
                tracker' = FrontierTracker_new(tracker, order_edges(tracker.forder, 1), rdy)
    /\ UNCHANGED notFrontier

\* FrontierTracker::step returning Some(b)
FrontierTracker_step ==
    /\ tracker.fpc = "stepping"
    /\ ready # <<>>
    /\ LET b == Head(ready)
           inserted == live \cup {b}
           advanced == advance_dependents(tracker.dependents[b], in_degree, Tail(ready))
       IN  tracker' = [tracker EXCEPT
               !.live = inserted \ {b},
               !.max_frontier = IF Cardinality(inserted) > max_frontier
                                THEN Cardinality(inserted) ELSE max_frontier,
               !.depth = depth + 1,
               !.in_degree = advanced.in_degree,
               !.ready = advanced.ready,
               !.yielded = Append(yielded, b)]
    /\ UNCHANGED notFrontier

\* FrontierTracker::step returning None; compute_max_frontier then returns
\* stats().max_frontier_size
FrontierTracker_step_none ==
    /\ tracker.fpc = "stepping"
    /\ ready = <<>>
    /\ tracker' = [tracker EXCEPT
           !.fpc = IF tracker.input_kind = "order" THEN "returned" ELSE "none",
           !.cmf = IF tracker.input_kind = "order" THEN max_frontier ELSE -1]
    /\ UNCHANGED notFrontier

FrontierNext ==
    \/ FrontierTracker_new_call
    \/ compute_max_frontier_start
    \/ FrontierTracker_step
    \/ FrontierTracker_step_none

\* ------------------------------------------------------------------------
\* Part XIV: Storage::read_range of FsStorage and MemoryStorage
\* ------------------------------------------------------------------------
\* the object stored at the path: none, or the bytes 1, 2, .. of its length
StoredObjects ==
    {[exists |-> FALSE, bytes |-> <<>>]}
    \cup {[exists |-> TRUE, bytes |-> [i \in 1..n |-> i]] : n \in 0..MaxObject}

RangeErr == [kind |-> "Err", bytes |-> <<>>]

RangePanic == [kind |-> "panic", bytes |-> <<>>]

RangeOk(bytes) == [kind |-> "Ok", bytes |-> bytes]

\* the counts a single Read::read may return for a buffer of len bytes with
\* avail bytes left in the file: 0 at the end of the file or for an empty
\* buffer, else at least one byte and at most what fits and is there
read_counts(avail, len) ==
    IF avail <= 0 \/ len = 0 THEN {0}
    ELSE {n \in 1..len : n <= avail}

\* FsStorage::read_range: open, seek, one read into a buffer of len bytes,
\* truncate to the count read; io_ok is whether open, seek and read succeed
FsStorage_read_range(object, offset, len, io_ok, n) ==
    IF ~object.exists \/ ~io_ok THEN RangeErr
    ELSE RangeOk(SubSeq(object.bytes, offset + 1, offset + n))

\* MemoryStorage::read_range; start + len overflows a usize above MaxWord:
\* a panic with overflow checks, a wrapped sum without, which makes the
\* slice start past its end
MemoryStorage_read_range(object, offset, len, overflow_checks) ==
    IF ~object.exists THEN RangeErr
    ELSE LET start == offset
             size == Len(object.bytes)
             sum == (start + len) % Word
             end == IF sum < size THEN sum ELSE size
         IN  IF start + len > MaxWord /\ overflow_checks THEN RangePanic
             ELSE IF start >= size THEN RangeErr
             ELSE IF start > end THEN RangePanic
             ELSE RangeOk(SubSeq(object.bytes, start + 1, end))

RangeInit ==
    range_call \in
        [rr_in : [backend : {"fs", "memory"}, object : StoredObjects,
                  offset : Bytes, len : Bytes, overflow_checks : BOOLEAN],
         rr_out : {[kind |-> "none", bytes |-> <<>>]}]

\* a call of FsStorage::read_range
FsStorage_read_range_call ==
    /\ rr_out.kind = "none"
    /\ rr_in.backend = "fs"
    /\ \E io_ok \in BOOLEAN :
       \E n \in read_counts(Len(rr_in.object.bytes) - rr_in.offset, rr_in.len) :
           range_call' = [range_call EXCEPT !.rr_out =
               FsStorage_read_range(rr_in.object, rr_in.offset, rr_in.len, io_ok, n)]
    /\ UNCHANGED notRange

\* a call of MemoryStorage::read_range
MemoryStorage_read_range_call ==
    /\ rr_out.kind = "none"
    /\ rr_in.backend = "memory"
    /\ range_call' = [range_call EXCEPT !.rr_out =
           MemoryStorage_read_range(rr_in.object, rr_in.offset, rr_in.len,
                                    rr_in.overflow_checks)]
    /\ UNCHANGED notRange

RangeNext == FsStorage_read_range_call \/ MemoryStorage_read_range_call

\* ------------------------------------------------------------------------
\* Part XV: SpillManager.segments against the files of its storage
\* ------------------------------------------------------------------------
\* how a Storage::write ends: Ok, an error before the file is opened, or an
\* error of write_all after File::create has truncated the file
WriteOutcomes == {"ok", "create", "write_all"}

\* the file a failed write_all leaves: a proper prefix of the segment's bytes
truncated_segment(seg) ==
    [present |-> TRUE, truncated |-> TRUE, header |-> seg.header, payload |-> seg.payload]

\* FsStorage::write on the file at a path: what the path holds afterwards
FsStorage_write(file, bytes, outcome) ==
    IF outcome = "ok" THEN bytes
    ELSE IF outcome = "create" THEN file
    ELSE truncated_segment(bytes)

\* FsStorage::delete: remove_file, or an error that leaves the file
FsStorage_delete(file, io_ok) == IF io_ok THEN NoSegment ELSE file

\* SpillManager::new over an empty spill directory; a segment name is its
\* run index, and its path is "{root_dir}/{name}.seg"
SpillDirInit ==
    spill_dir = [files |-> [n \in RunIndices |-> NoSegment],
                 segments |-> [n \in RunIndices |-> NoMeta],
                 res |-> "none"]

\* SpillManager::list_segments: the keys of segments
SpillManager_list_segments == {n \in RunIndices : spill_dir.segments[n].present}

\* SpillManager::write_batch with Codec::None: storage.write(path, segment)?
\* and then segments.insert(name, meta)
SpillManager_write_batch_file(batch, run_index, outcome) ==
    /\ LET len == json_len(to_vec(batch))
           seg == stored_segment(batch, CodecNone, len)
           m == segment_meta(batch, CodecNone, len, run_index)
       IN spill_dir' =
             [files |-> [spill_dir.files EXCEPT
                            ![run_index] = FsStorage_write(@, seg, outcome)],
              segments |-> IF outcome = "ok"
                           THEN [spill_dir.segments EXCEPT ![run_index] = m]
                           ELSE spill_dir.segments,
              res |-> IF outcome = "ok" THEN "Ok" ELSE "Storage"]
    /\ UNCHANGED notSpillDir

\* SpillManager::delete_segment: segments.remove(name), and for a tracked
\* name storage.delete(&meta.path)?
SpillManager_delete_segment_file(name, io_ok) ==
    /\ IF spill_dir.segments[name].present
       THEN spill_dir' =
               [files |-> [spill_dir.files EXCEPT ![name] = FsStorage_delete(@, io_ok)],
                segments |-> [spill_dir.segments EXCEPT ![name] = NoMeta],
                res |-> IF io_ok THEN "Ok" ELSE "Storage"]
       ELSE spill_dir' = [spill_dir EXCEPT !.res = "Ok"]
    /\ UNCHANGED notSpillDir

SpillDirNext ==
    \/ \E batch \in Batches, run_index \in RunIndices, outcome \in WriteOutcomes :
          SpillManager_write_batch_file(batch, run_index, outcome)
    \/ \E name \in RunIndices, io_ok \in BOOLEAN :
          SpillManager_delete_segment_file(name, io_ok)

\* ------------------------------------------------------------------------
\* Parts V to XV, not in use
\* ------------------------------------------------------------------------
RunGenOff == generator = "off"

RunOff == engine_run = "off"

RetryOff == retry_call = "off"

YamlOff == yaml_call = "off"

SizeOff == block_size = "off"

FilterOff == filter_call = "off"

WindowOff == window_call = "off"

ExplodeOff == explode_call = "off"

FrontierOff == tracker = "off"

RangeOff == range_call = "off"

SpillDirOff == spill_dir = "off"

\* Parts XII to XV not in use
FinalOff == ExplodeOff /\ FrontierOff /\ RangeOff /\ SpillDirOff

\* ------------------------------------------------------------------------
\* Specifications
\* ------------------------------------------------------------------------
\* no budget in use
BudgetOff ==
    /\ BudgetInit
    /\ capacity = 0

\* no run in progress
ExecOff ==
    /\ mode = "off"
    /\ order = <<>>
    /\ max_parallel = 1
    /\ EngineInit
    /\ SchedInit

\* Engine::run does not read max_parallel_tasks
ExecInit ==
    /\ order \in PlanSet(MaxBlocks)
    /\ \/ mode = "engine" /\ max_parallel = 1
       \/ mode = "sched" /\ max_parallel \in 1..MaxParallel
    /\ EngineInit
    /\ SchedInit

ExecNext == EngineNext \/ SchedNext

\* no spill manager in use
SpillOff ==
    /\ codec = CodecNone
    /\ codec_enabled = TRUE
    /\ SpillInit

\* a manager of any codec; Codec::None needs no cargo feature
SpillOn ==
    /\ codec \in Codecs
    /\ codec_enabled \in (IF codec = CodecNone THEN {TRUE} ELSE BOOLEAN)
    /\ SpillInit

\* the budget read_batch is handed: other owners hold used bytes of it in
\* one guard
SpillBudgetInit ==
    /\ capacity \in Bytes
    /\ used \in 0..capacity
    /\ guardLive = [g \in Guards |-> g = 1 /\ used > 0]
    /\ guardBytes = [g \in Guards |-> IF g = 1 THEN used ELSE 0]
    /\ tpc = [t \in Threads |-> "idle"]
    /\ top = [t \in Threads |-> NoCall]

\* Parts V to XV not in use
LaterOff ==
    /\ RunGenOff
    /\ RunOff
    /\ RetryOff
    /\ YamlOff
    /\ SizeOff
    /\ FilterOff
    /\ WindowOff
    /\ FinalOff

\* nothing else in use
RestOff == HeaderOff /\ SortOff /\ MergeOff /\ LaterOff

InitBudget == BudgetInit /\ ExecOff /\ SpillOff /\ RestOff

InitExec == BudgetOff /\ ExecInit /\ SpillOff /\ RestOff

InitSpill == SpillBudgetInit /\ ExecOff /\ SpillOn /\ RestOff

InitSegments == BudgetOff /\ ExecOff /\ SpillOn /\ RestOff

InitHeader ==
    BudgetOff /\ ExecOff /\ SpillOff /\ HeaderInit /\ SortOff /\ MergeOff /\ LaterOff

InitSort ==
    BudgetInit /\ ExecOff /\ SpillOn /\ HeaderOff /\ SortInit /\ MergeOff /\ LaterOff

\* Parts VI to XI not in use
AfterGenOff ==
    RunOff /\ RetryOff /\ YamlOff /\ SizeOff /\ FilterOff /\ WindowOff /\ FinalOff

InitRunGen ==
    /\ SpillBudgetInit /\ ExecOff /\ SpillOn /\ HeaderOff /\ SortOff /\ MergeOff
    /\ RunGenInit /\ AfterGenOff

\* Parts I to IV not in use
EarlierOff == BudgetOff /\ ExecOff /\ SpillOff /\ HeaderOff /\ SortOff /\ MergeOff

InitRun ==
    /\ EarlierOff /\ RunGenOff
    /\ RunInit /\ RetryOff /\ YamlOff /\ SizeOff /\ FilterOff /\ WindowOff /\ FinalOff

InitMerge ==
    BudgetOff /\ ExecOff /\ SpillOff /\ HeaderOff /\ SortOff /\ MergeInit /\ LaterOff

InitRetry ==
    /\ EarlierOff /\ RunGenOff /\ RunOff
    /\ RetryInit /\ YamlOff /\ SizeOff /\ FilterOff /\ WindowOff /\ FinalOff

SpecRetry == InitRetry /\ [][RetryNext]_vars

InitYaml ==
    /\ EarlierOff /\ RunGenOff /\ RunOff
    /\ RetryOff /\ YamlInit /\ SizeOff /\ FilterOff /\ WindowOff /\ FinalOff

SpecYaml == InitYaml /\ [][YamlNext]_vars

InitSize ==
    /\ EarlierOff /\ RunGenOff /\ RunOff
    /\ RetryOff /\ YamlOff /\ SizeInit /\ FilterOff /\ WindowOff /\ FinalOff

SpecSize == InitSize /\ [][SizeNext]_vars

InitFilter ==
    /\ EarlierOff /\ RunGenOff /\ RunOff
    /\ RetryOff /\ YamlOff /\ SizeOff /\ FilterInit /\ WindowOff /\ FinalOff

SpecFilter == InitFilter /\ [][FilterNext]_vars

InitWindow ==
    /\ EarlierOff /\ RunGenOff /\ RunOff
    /\ RetryOff /\ YamlOff /\ SizeOff /\ FilterOff /\ WindowInit /\ FinalOff

SpecWindow == InitWindow /\ [][WindowNext]_vars

InitExplode ==
    /\ EarlierOff /\ RunGenOff /\ RunOff /\ RetryOff /\ YamlOff /\ SizeOff /\ FilterOff
    /\ WindowOff /\ ExplodeInit /\ FrontierOff /\ RangeOff /\ SpillDirOff

SpecExplode == InitExplode /\ [][ExplodeNext]_vars

InitFrontier ==
    /\ EarlierOff /\ RunGenOff /\ RunOff /\ RetryOff /\ YamlOff /\ SizeOff /\ FilterOff
    /\ WindowOff /\ ExplodeOff /\ FrontierInit /\ RangeOff /\ SpillDirOff

SpecFrontier == InitFrontier /\ [][FrontierNext]_vars

InitRange ==
    /\ EarlierOff /\ RunGenOff /\ RunOff /\ RetryOff /\ YamlOff /\ SizeOff /\ FilterOff
    /\ WindowOff /\ ExplodeOff /\ FrontierOff /\ RangeInit /\ SpillDirOff

SpecRange == InitRange /\ [][RangeNext]_vars

\* block execution under fair scheduling: execute_dag, the launcher task and
\* every worker task take their next step when they can
ExecFairness ==
    /\ WF_vars(execute_dag_setup \/ execute_dag_recv \/ execute_dag_join)
    /\ WF_vars(launcher_recv \/ launcher_exit \/ launcher_acquire \/ launcher_spawn)
    /\ \A b \in BlockSlots :
           WF_vars(execute_block_gather(b) \/ execute_block_eval(b)
                   \/ worker_fetch_sub(b) \/ worker_exit(b))

SpecExecFair == InitExec /\ [][ExecNext]_vars /\ ExecFairness

InitSpillDir ==
    /\ EarlierOff /\ RunGenOff /\ RunOff /\ RetryOff /\ YamlOff /\ SizeOff /\ FilterOff
    /\ WindowOff /\ ExplodeOff /\ FrontierOff /\ RangeOff /\ SpillDirInit

SpecSpillDir == InitSpillDir /\ [][SpillDirNext]_vars

SpecBudget == InitBudget /\ [][BudgetNext]_vars

SpecExec == InitExec /\ [][ExecNext]_vars

SpecSpill == InitSpill /\ [][SpillNext]_vars

SpecSegments == InitSegments /\ [][SegmentsNext]_vars

SpecHeader == InitHeader /\ [][HeaderNext]_vars

SpecSort == InitSort /\ [][SortNext]_vars

SpecMerge == InitMerge /\ [][MergeNext]_vars

SpecRunGen == InitRunGen /\ [][RunGenNext]_vars

SpecRun == InitRun /\ [][RunNext]_vars


\* ------------------------------------------------------------------------
\* Part I: properties of the memory budget
\* ------------------------------------------------------------------------
\* this step is the return of the call that thread t has in progress
Returns(t) == tpc[t] # "idle" /\ tpc'[t] = "idle"

\* C1: under every interleaving of try_acquire, try_resize and drop the
\* counter stays within 0..capacity: no step takes it above the capacity and
\* no step that lowers a guard (a shrink or a drop) hands back more bytes
\* than the counter holds, so it never underflows.
C1_UsedWithinCapacity ==
    [][/\ 0 <= used'
       /\ used' <= capacity
       /\ \A g \in Guards :
             guardBytes'[g] < guardBytes[g] => guardBytes[g] - guardBytes'[g] <= used]_vars

\* C2: a try_acquire(bytes) with bytes > 0 returns a guard iff used + bytes <=
\* capacity at the step that decides it (the sum taken in the integers, so
\* also when it does not fit the machine word); a denied call leaves used
\* unchanged.
C2_AcquireIffFits ==
    [][\A t \in Threads :
          (Returns(t) /\ top[t].kind = "acquire") =>
              /\ guardLive'[top[t].g] <=> (used + top[t].delta <= capacity)
              /\ ~guardLive'[top[t].g] => used' = used]_vars

\* every guard has been dropped and no call is in progress
Quiescent ==
    /\ \A g \in Guards : ~guardLive[g]
    /\ \A t \in Threads : tpc[t] = "idle"

\* C3: once every guard has been dropped, used is 0 and an acquisition of the
\* full capacity passes the capacity check.
C3_AllDroppedUsedZero ==
    Quiescent =>
        /\ used = 0
        /\ saturating_add(used, capacity) <= capacity

\* C4: try_resize: a shrink lowers used by exactly the difference; a grow
\* returns true iff used + difference <= capacity and then raises used by
\* exactly the difference; a denied grow leaves the guard's bytes and used
\* unchanged.
C4_ResizeContract ==
    [][/\ \A g \in Guards :
             (guardLive'[g] /\ guardBytes'[g] < guardBytes[g]) =>
                 used' = used - (guardBytes[g] - guardBytes'[g])
       /\ \A t \in Threads :
             (Returns(t) /\ top[t].kind = "resize") =>
                 LET g == top[t].g
                     granted == guardBytes'[g] = top[t].newb
                 IN /\ granted <=> (used + top[t].delta <= capacity)
                    /\ granted => used' = used + top[t].delta
                    /\ ~granted => (used' = used /\ guardBytes'[g] = guardBytes[g])]_vars

\* try_acquire(0) by thread t into slot g hands out a guard of 0 bytes and
\* leaves the counter alone
ZeroAcquireGranted(t, g) ==
    /\ MemoryBudgetImpl_try_acquire(t, g, 0)
    /\ guardLive'[g]
    /\ guardBytes'[g] = 0
    /\ used' = used

\* dropping guard g leaves the counter alone
DropKeepsUsed(t, g) ==
    /\ BudgetGuardImpl_drop(t, g)
    /\ used' = used

\* C5: try_acquire(0) always succeeds, also with used = capacity, and gives a
\* guard of 0 bytes; creating it and dropping a guard of 0 bytes both leave
\* used unchanged.
C5_ZeroAcquireIsNoOp ==
    \A t \in Threads, g \in Guards :
        /\ (tpc[t] = "idle" /\ SlotFree(g)) => ENABLED ZeroAcquireGranted(t, g)
        /\ (tpc[t] = "idle" /\ GuardIdle(g) /\ guardBytes[g] = 0) =>
              ENABLED DropKeepsUsed(t, g)

\* a guard of 0 bytes is live in a full, non-empty budget and another
\* zero-byte acquisition is about to be made
C5_Witness ==
    /\ capacity > 0
    /\ used = capacity
    /\ \E g \in Guards : guardLive[g] /\ guardBytes[g] = 0
    /\ \E t \in Threads, g \in Guards : tpc[t] = "idle" /\ SlotFree(g)

\* the sum of bytes() over the guards 1..g that are handed out and not dropped
RECURSIVE HeldBytes(_)
HeldBytes(g) ==
    IF g = 0 THEN 0
    ELSE (IF guardLive[g] THEN guardBytes[g] ELSE 0) + HeldBytes(g - 1)

\* C34: under every interleaving of try_acquire, try_resize and drop, used
\* equals the sum of bytes() over the guards that have been handed out and
\* not yet dropped
C34_UsedIsSumOfGuards == used = HeldBytes(NGuards)

\* ------------------------------------------------------------------------
\* Part II: properties of block execution
\* ------------------------------------------------------------------------
\* C6: in Engine::run and in execute_dag alike, eval_block of a block is in
\* progress only when every block of its deps has completed successfully and
\* had its result stored in results.
C6_DepsCompletedBeforeEval ==
    /\ epc = "eval" => \A d \in SeqToSet(order[ei]) : d \in estored
    /\ \A b \in BlockSlots :
          wpc[b] = "eval" => \A d \in SeqToSet(order[b]) : d \in sresults

\* a worker evaluates a block that has two different dependencies
C6_Witness ==
    /\ mode = "sched"
    /\ \E b \in BlockSlots :
          /\ wpc[b] = "eval"
          /\ Len(order[b]) = 2
          /\ order[b][1] # order[b][2]

\* C7: in Engine::run the gather moves every dependency's batch out of
\* results: once the inputs of a block are gathered they are exactly the
\* batches of its deps and none of them is left in results, no batch is ever
\* handed out twice, and a block with an absent dependency batch ends the run
\* with an invalid-plan error without its operator being run.
C7_GatherMovesBatches ==
    /\ epc \in {"dispatch", "eval"} =>
          /\ einputs = order[ei]
          /\ \A d \in SeqToSet(order[ei]) : d \notin eresults
    /\ \A b \in BlockSlots : ehanded[b] <= 1
    /\ eerr = "invalid_dep" =>
          /\ epc = "failed"
          /\ ei \notin estarted
          /\ ~manifest

\* the run has failed on a dependency that an earlier block had consumed
C7_Witness ==
    /\ eerr = "invalid_dep"
    /\ \E d \in SeqToSet(order[ei]) : d # ei /\ d \in estored /\ ehanded[d] = 1

\* C8: when eval_block returns an error Engine::run returns it at once: the
\* run is over, no block later in te.order has been dispatched and there is
\* no manifest.
C8_EvalErrorEndsRun ==
    eerr = "operator" =>
        /\ epc = "failed"
        /\ ~manifest
        /\ \A b \in estarted : b <= ei
        /\ ei \notin estored

\* the run has failed in eval_block with blocks of te.order still to come
C8_Witness ==
    /\ eerr = "operator"
    /\ ei > 1
    /\ ei < NumBlocks

\* C9: in execute_dag neither the number of blocks inside eval_block nor the
\* active_tasks counter ever exceeds max_parallel.
C9_ParallelismBounded ==
    /\ active_tasks <= max_parallel
    /\ Cardinality({b \in BlockSlots : wpc[b] = "eval"}) <= max_parallel

\* max_parallel blocks are inside eval_block and the launcher waits for a
\* permit to launch one more
C9_Witness ==
    /\ Cardinality({b \in BlockSlots : wpc[b] = "eval"}) = max_parallel
    /\ lpc = "acquire"
    /\ permits = 0

\* C10: once execute_dag has returned the failure of a block, no launched
\* block task is still before or inside eval_block and the launcher is not
\* launching a further block.
C10_FailureAwaitsTasks ==
    serr = "block_failed" =>
        /\ spc = "returned"
        /\ \A b \in BlockSlots : wpc[b] \notin {"spawned", "eval"}
        /\ lpc \in {"recv", "exited"}

\* C11: in Engine::run and in execute_dag alike, once every block that
\* depends on a block b has started (b having at least one dependent), the
\* batch of b is no longer held in the results map.
C11_BatchHeldUntilDependentsStart ==
    \A b \in 1..NumBlocks :
        LET users == SeqToSet(dependents(b)) IN
        users # {} =>
            /\ users \subseteq estarted => b \notin eresults
            /\ (\A c \in users : wpc[c] \in {"eval", "sent", "dec", "exited"}) =>
                   b \notin sresults

\* the blocks form an acyclic set closed under deps: every dependency of a
\* block is a block before it in the list
AcyclicBlockSet ==
    \A i \in 1..NumBlocks : \A k \in DOMAIN order[i] : order[i][k] < i

\* C35: under fair scheduling of execute_dag, the launcher and the workers,
\* execute_dag eventually returns for every acyclic block set whose deps
\* name blocks of the set, the empty block set included
C35_ExecuteDagReturns == (mode = "sched" /\ AcyclicBlockSet) ~> (spc = "returned")

\* C36: no block is sent to the ready channel twice or launched twice, and
\* when execute_dag returns Ok a worker task has been launched exactly once
\* for every block, has evaluated it and has ended, no block is left in the
\* ready channel, and the returned map holds a result for exactly the block
\* ids
C36_EachBlockEvaluatedOnce ==
    mode = "sched" =>
        /\ \A b \in 1..NumBlocks :
               Count(readyQ, b) + (IF lblock = b THEN 1 ELSE 0) + launched[b] <= 1
        /\ (spc = "returned" /\ serr = "none") =>
               /\ sresults = 1..NumBlocks
               /\ readyQ = <<>>
               /\ \A b \in 1..NumBlocks : launched[b] = 1 /\ wpc[b] = "exited"

\* execute_dag has returned Ok for three blocks, the last with two
\* dependencies, run by two parallel tasks
C36_Witness ==
    /\ mode = "sched"
    /\ spc = "returned"
    /\ serr = "none"
    /\ NumBlocks = 3
    /\ order[3] = <<1, 2>>
    /\ max_parallel = 2

\* ------------------------------------------------------------------------
\* Part III: properties of spill segments
\* ------------------------------------------------------------------------
\* the Storage still holds, bit for bit, the segment write_batch wrote
Intact == segbytes.present /\ blake3(segbytes) = meta.checksum

\* the header of the stored segment passes from_bytes and validate_sizes
HeaderAccepted ==
    /\ from_bytes(segbytes.header).ok
    /\ validate_sizes(from_bytes(segbytes.header).header, SizeLimit, SizeLimit).ok

\* C12: for every batch and every codec, read_batch on the metadata that
\* write_batch returned gives back the batch written (same columns, same
\* values), provided the storage read succeeds and the budget has room for
\* the uncompressed length.
C12_ReadReturnsWrittenBatch ==
    [][(/\ SpillManager_read_batch(TRUE)
        /\ Intact
        /\ used + meta.uncompressed_len <= capacity)
       => (rres'.kind = "Ok" /\ rres'.batch = written)]_vars

\* C13: when one bit of the stored segment, header or payload, differs from
\* what write_batch wrote, read_batch fails with the checksum-mismatch error
\* kind, before parsing the header and before acquiring budget.
C13_CorruptionIsChecksumMismatch ==
    [][(/\ SpillManager_read_batch(TRUE)
        /\ segbytes.present
        /\ ~Intact)
       => (/\ rres'.kind = "ChecksumMismatch"
           /\ ~rres'.parsed
           /\ ~rres'.acquired)]_vars

\* C14: read_batch acquires a guard of header.uncompressed_len bytes only
\* after the checksum and the header checks have passed and before it
\* decompresses; when the budget denies the guard it returns a budget error
\* and neither decompresses nor deserializes.
C14_GuardBeforeDecompress ==
    [][SpillManager_read_batch(TRUE) =>
        /\ rres'.acquired =>
              /\ Intact /\ HeaderAccepted
              /\ rres'.guard = meta.uncompressed_len
        /\ rres'.decompressed => rres'.acquired
        /\ (/\ Intact /\ HeaderAccepted
            /\ ~try_acquire_once(used, meta.uncompressed_len).granted)
           => (/\ rres'.kind = "Budget"
               /\ ~rres'.decompressed
               /\ ~rres'.deserialized)]_vars

\* the latest read_batch was denied its guard by a budget that is too full
C14_Witness ==
    /\ rres.kind = "Budget"
    /\ meta.present
    /\ used + meta.uncompressed_len > capacity
    /\ rres.parsed

\* C15: whatever read_batch returns, the budget counter after the call is
\* the counter before it.
C15_ReadLeavesUsedUnchanged ==
    [][(\E io_ok \in BOOLEAN : SpillManager_read_batch(io_ok)) => used' = used]_vars

\* C16: delete_segment is idempotent, and whenever it returns Ok the segment
\* is neither tracked by the manager nor present in the storage, also after
\* a storage delete has failed and delete_segment is called again.
C16_DeleteOkMeansGone ==
    [][\A name \in RunIndices, io_ok \in BOOLEAN :
          SpillManager_delete_segment(name, io_ok) =>
              /\ dres'.ok => (name \notin segments' /\ name \notin storage')
              /\ (name \notin segments /\ name \notin storage) =>
                    (dres'.ok /\ segments' = segments /\ storage' = storage)]_vars

\* C17: as read_batch calls them, from_bytes rejects a header whose magic is
\* not 0x45534D51, whose version is not 1 or whose codec byte is not 0, 1 or
\* 2, and validate_sizes rejects exactly the headers with uncompressed_len or
\* compressed_len above 100 MiB or with compressed_len > uncompressed_len
\* under a codec other than None; a length of exactly 100 MiB is accepted.
C17_HeaderChecks ==
    hres.done =>
        LET well_formed == /\ hbytes.len >= 24
                           /\ hbytes.magic = 1163087185
                           /\ hbytes.version = 1
                           /\ hbytes.codec \in {0, 1, 2}
            sizes_fine == /\ hbytes.uncompressed_len <= 104857600
                          /\ hbytes.compressed_len <= 104857600
                          /\ \/ hbytes.compressed_len <= hbytes.uncompressed_len
                             \/ hbytes.codec = 0
        IN /\ ~well_formed => (~hres.ok /\ hres.stage = "from_bytes")
           /\ well_formed => (hres.stage = "validate_sizes" /\ (hres.ok <=> sizes_fine))

\* a header with both lengths at exactly 100 MiB has been accepted
C17_Witness ==
    /\ hres.done
    /\ hres.ok
    /\ hbytes.uncompressed_len = SizeLimit
    /\ hbytes.compressed_len = SizeLimit
    /\ hbytes.codec # CodecNone

\* C18: successive calls of next_run_index on one manager return 0, 1, 2,
\* ... and no two calls return the same index, so two runs written under
\* one spill id never share a segment name.
C18_RunIndicesDistinct ==
    /\ \A k \in DOMAIN issued : issued[k] = k - 1
    /\ \A j, k \in DOMAIN issued : j # k => issued[j] # issued[k]

\* the Scalar ordering as the specification states it: nulls first, then by
\* variant, within a variant the natural order, NaN above every float
ScalarRank(s) ==
    CASE s.tag = "Null" -> <<0, 0, 0>>
      [] s.tag = "I64" -> <<3, 0, s.num>>
      [] s.tag = "F64" /\ s.cls = "fin" -> <<5, 0, s.num>>
      [] s.tag = "F64" /\ s.cls = "inf" -> <<5, 1, 0>>
      [] s.tag = "F64" /\ s.cls = "nan" -> <<5, 2, 0>>

ScalarBefore(a, b) ==
    LET x == ScalarRank(a)
        y == ScalarRank(b)
    IN \/ x[1] < y[1]
       \/ x[1] = y[1] /\ x[2] < y[2]
       \/ x[1] = y[1] /\ x[2] = y[2] /\ x[3] < y[3]

ScalarSame(a, b) == ScalarRank(a) = ScalarRank(b)

\* key tuples of one length, compared position by position
KeysBefore(a, b) ==
    \E c \in DOMAIN a :
        /\ ScalarBefore(a[c], b[c])
        /\ \A d \in 1..(c - 1) : ScalarSame(a[d], b[d])

KeysSame(a, b) == \A c \in DOMAIN a : ScalarSame(a[c], b[c])

\* the key tuple of a row, the keys being columns of the batch
RowKeys(batch, keys, r) ==
    [c \in DOMAIN keys |-> batch[column_position(batch, keys[c])].values[r]]

\* out holds the rows of in, in key order, rows of equal keys in input order
StablySorted(in, keys, out) ==
    /\ DOMAIN out = DOMAIN in
    /\ \E p \in [1..num_rows(in) -> 1..num_rows(in)] :
          /\ \A i, j \in DOMAIN p : i # j => p[i] # p[j]
          /\ \A c \in DOMAIN in :
                /\ out[c].name = in[c].name
                /\ out[c].values = [r \in DOMAIN p |-> in[c].values[p[r]]]
          /\ \A i, j \in DOMAIN p :
                i < j => \/ KeysBefore(RowKeys(in, keys, p[i]), RowKeys(in, keys, p[j]))
                         \/ /\ KeysSame(RowKeys(in, keys, p[i]), RowKeys(in, keys, p[j]))
                            /\ p[i] < p[j]

\* the sort keys are columns of the input
KeysPresent == \A c \in DOMAIN sort_by : column_position(sort_in, sort_by[c]) # 0

\* the spill path has what it needs: the codec is built in and the budget
\* has room for the serialized batch
SpillUsable ==
    spill_configured =>
        /\ codec = CodecNone \/ codec_enabled
        /\ used + json_len(to_vec(sort_in)) <= capacity

\* C19: for every input batch and key list eval_block returns the rows of
\* the input ordered by the key tuple under the Scalar ordering (nulls
\* first, NaN after every finite float), rows of equal keys in input order,
\* and returns the same batch with and without a spill manager.
C19_EvalBlockSortsStably ==
    [][\A change \in LenChanges :
          (ExternalSort_eval_block(change, TRUE) /\ KeysPresent /\ SpillUsable)
          => /\ sort_out'.ok
             /\ StablySorted(sort_in, sort_by, sort_out'.batch)
             /\ sort_out'.batch = sort_by_columns(sort_in, sort_by).batch]_vars

\* the rows of the runs handed to k_way_merge
MergeRows ==
    {[run_idx |-> i, row_idx |-> r] : i \in DOMAIN run_batches, r \in 1..MaxRows}
    \cap {e \in [run_idx : DOMAIN run_batches, row_idx : 1..MaxRows] :
             e.row_idx <= num_rows(run_batches[e.run_idx])}

MergeKey(e) == extract_sort_tuple(run_batches[e.run_idx], e.row_idx)

\* C20: over sorted runs k_way_merge returns every row of every run exactly
\* once, in key order, and of two rows with equal keys the one of the lower
\* run index comes first, rows of one run in their run order.
C20_MergeIsStable ==
    mpc = "done" =>
        /\ Len(emitted) = Cardinality(MergeRows)
        /\ {emitted[i] : i \in DOMAIN emitted} = MergeRows
        /\ \A i, j \in DOMAIN emitted :
              i < j => \/ KeysBefore(MergeKey(emitted[i]), MergeKey(emitted[j]))
                       \/ /\ KeysSame(MergeKey(emitted[i]), MergeKey(emitted[j]))
                          /\ \/ emitted[i].run_idx < emitted[j].run_idx
                             \/ /\ emitted[i].run_idx = emitted[j].run_idx
                                /\ emitted[i].row_idx < emitted[j].row_idx

\* C21: once an ExternalSort evaluation has finished, with success or with
\* an error, and the operator has been dropped, no segment it wrote is still
\* tracked by the spill manager or present in the storage.
C21_NoSegmentAfterDrop ==
    (sort_out.done /\ ~sort_live) =>
        \A k \in DOMAIN issued : issued[k] \notin segments /\ issued[k] \notin storage

\* bytes the accumulation buffer holds, a byte a row
BufferBytes(acc) == IF acc = <<>> THEN 0 ELSE num_rows(concat_accumulated(acc))

\* the budget has no room for the buffer
GrowDenied(acc) == used + BufferBytes(acc) > capacity

\* C22: add_batch flushes the accumulated batches as one sorted run as soon
\* as accum_rows >= max_rows or the budget denies the growth of the
\* accumulation buffer; accumulation never continues past a budget denial.
C22_FlushOnThresholdOrDenial ==
    [][\A batch \in GenBatches, change \in LenChanges :
          (/\ RunGenerator_add_batch(batch, change, TRUE)
           /\ gen_res' = "Ok"
           /\ \/ accum_rows + num_rows(batch) >= max_rows
              \/ GrowDenied(Append(accumulator, batch)))
          => (/\ accumulator' = <<>>
              /\ accum_rows' = 0
              /\ Len(gen_runs') = Len(gen_runs) + 1
              /\ written' = sort_by_columns(concat_accumulated(Append(accumulator, batch)),
                                            GenSortKeys).batch)]_vars

\* rows held by the batches of an accumulator
RECURSIVE HeldRows(_)
HeldRows(acc) ==
    IF acc = <<>> THEN 0 ELSE num_rows(acc[1]) + HeldRows(Tail(acc))

\* rows the recorded runs have, by RunMeta.rows
RECURSIVE RunRows(_)
RunRows(runs) ==
    IF runs = <<>> THEN 0 ELSE runs[1].rows + RunRows(Tail(runs))

\* C38: over add_batch calls followed by finalize, no spill write failing,
\* accum_rows is always the number of rows held in the accumulator, and
\* after finalize the accumulator is empty and the rows of the recorded runs
\* sum to the number of rows added.
C38_RowsAccountedFor ==
    /\ accum_rows = HeldRows(accumulator)
    /\ (gen_last = "finalize" /\ ~gen_write_failed) =>
          /\ accumulator = <<>>
          /\ RunRows(gen_runs) = gen_added

\* the results the two runs returned
RunResults == {run_res, rfirst}

\* C23: plan_hash and te_hash of a manifest are functions of the physical
\* plan, the bindings and te.order only: two runs of one program and TE
\* order return equal hashes whatever the times, the manifest ids and the
\* outcome of the blocks, and the hashes are those of replay::hash_program
\* and replay::hash_te.
C23_HashesDependOnProgramOnly ==
    /\ \A r \in RunResults :
          (r.kind = "Ok") =>
              /\ r.manifest.plan_hash = hash_program(rprogram)
              /\ r.manifest.te_hash = hash_te(rte)
    /\ (run_res.kind = "Ok" /\ rfirst.kind = "Ok") =>
          /\ run_res.manifest.plan_hash = rfirst.manifest.plan_hash
          /\ run_res.manifest.te_hash = rfirst.manifest.te_hash

\* two runs returned manifests with different ids and different times
C23_Witness ==
    /\ rpc = "done"
    /\ run_res.kind = "Ok"
    /\ rfirst.kind = "Ok"
    /\ run_res.manifest.id # rfirst.manifest.id
    /\ run_res.manifest.started_ms # rfirst.manifest.started_ms
    /\ run_res.manifest.finished_ms # run_res.manifest.started_ms

\* some binding names a key the engine cannot instantiate
UnknownKeyBound ==
    \E op \in DOMAIN rprogram.bindings : ~instantiable(rprogram.bindings[op])

\* C27: when a binding names an operator key the engine cannot instantiate,
\* Engine::run fails with a registry error before eval_block of any block is
\* invoked.
C27_UnknownKeyFailsBeforeEval ==
    UnknownKeyBound =>
        /\ revaluated = <<>>
        /\ rpc \in {"start", "instantiate", "failed"}
        /\ rpc = "failed" => run_res = RunErr("Registry")

\* a run over a non-empty TE order ended with the registry error
C27_Witness ==
    /\ UnknownKeyBound
    /\ rpc = "failed"
    /\ run_res = RunErr("Registry")
    /\ rte # <<>>
    /\ \E op \in DOMAIN rprogram.bindings : instantiable(rprogram.bindings[op])

\* the delay run_with_retry is to sleep before the retry after attempt i
RECURSIVE CappedDelay(_)
CappedDelay(i) ==
    IF i = 1 THEN retry.initial_backoff
    ELSE duration_min(CappedDelay(i - 1) * 2, retry.max_backoff)

\* C24: run_with_retry invokes op at most max_retries + 1 times; the delay
\* between two attempts starts at initial_backoff, doubles after every retry
\* and never exceeds max_backoff; the first success is returned, else the
\* error of the last attempt.
C24_BoundedRetriesCappedBackoff ==
    /\ Len(op_results) <= retry.max_retries + 1
    /\ retry_pc = "loop" => Len(slept) = Len(op_results)
    /\ \A i \in DOMAIN slept :
          /\ slept[i] = CappedDelay(i)
          /\ slept[i] <= retry.max_backoff
    /\ \A i \in DOMAIN op_results :
          op_results[i].kind = "Ok" => i = Len(op_results)
    /\ retry_pc = "returned" =>
          LET last == op_results[Len(op_results)]
          IN  /\ Len(slept) = Len(op_results) - 1
              /\ retry_res = IF last.kind = "Ok" THEN RetryOk(last) ELSE RetryErr(last)

\* C25: a not-found or already-exists error is never retried: it is
\* returned right after the attempt that produced it, with no sleep after
\* it, whatever retry_not_found is.
C25_NotFoundAlreadyExistsNotRetried ==
    \A i \in DOMAIN op_results :
        op_results[i].kind \in {"NotFound", "AlreadyExists"} =>
            /\ i = Len(op_results)
            /\ retry_pc = "returned"
            /\ retry_res = RetryErr(op_results[i])
            /\ Len(slept) = i - 1

\* with retries left and retry_not_found set, an already-exists error after
\* a retried error was returned
C25_Witness ==
    /\ retry_not_found
    /\ retry_pc = "returned"
    /\ Len(op_results) = 2
    /\ retry.max_retries >= 2
    /\ op_results[1].kind = "Generic"
    /\ op_results[2].kind = "AlreadyExists"
    /\ retry_res.kind = "Storage"

\* the steps a logical plan nests, the innermost first
RECURSIVE Unnest(_)
Unnest(plan) ==
    IF plan.node = "Scan"
    THEN <<[op |-> "Scan", arg |-> plan.arg]>>
    ELSE Append(Unnest(plan.input), [op |-> plan.node, arg |-> plan.arg])

\* a step list that is not empty, starts with a scan and has no later scan
Acceptable(list) ==
    /\ list # <<>>
    /\ list[1].op = "Scan"
    /\ \A i \in 2..Len(list) : list[i].op # "Scan"

\* C26: parse_yaml_pipeline accepts a step list only if it is not empty,
\* starts with a scan and has no later scan, every other list being rejected
\* with an error; the plan of an accepted list nests the steps in list order,
\* the scan innermost and the last step outermost.
C26_LinearPipelineAccepted ==
    yres # NotParsed =>
        /\ (yres.kind = "Ok") <=> Acceptable(steps)
        /\ (yres.kind = "Err") <=> ~Acceptable(steps)
        /\ yres.kind = "Ok" => Unnest(yres.plan) = steps

\* a pipeline of a scan and two different later steps was accepted
C26_Witness ==
    /\ yres.kind = "Ok"
    /\ Len(steps) = 3
    /\ steps[2] # steps[3]
    /\ yres.plan.node = steps[3].op
    /\ yres.plan.input.input.node = "Scan"

\* C28: choose_block_size returns rows_per_block >= 1 for every memory cap
\* and work estimate, a zero cap, zero rows and zero bytes included, and
\* rows_per_block <= total_rows whenever total_rows >= 1.
C28_BlockSizeWithinRows ==
    bs_out.done =>
        /\ bs_out.rows_per_block >= 1
        /\ bs_in.work.total_rows >= 1 => bs_out.rows_per_block <= bs_in.work.total_rows

\* the byte target allowed more rows than there are, and the row total was
\* returned
C28_Witness ==
    /\ bs_out.done
    /\ bs_in.work.total_rows >= 2
    /\ bs_in.work.total_bytes > 0
    /\ target_rows(bs_in.mem_cap_bytes, bs_in.work, 0) > bs_in.work.total_rows
    /\ bs_out.rows_per_block = bs_in.work.total_rows

\* the value satisfies OP against the literal: a null never does, an integer
\* is compared with the integer the literal reads as, a float with the float
\* it reads as, infinity being equal to itself and above every finite float
Satisfies(val, op, literal) ==
    IF val.tag = "Null" THEN FALSE
    ELSE IF val.tag = "I64" THEN int_predicate(val.num, op, parse_i64(literal).num)
    ELSE int_predicate(float_cmp(val, parse_f64(literal).val), op, 0)

\* the rows of the batch whose x satisfies the predicate, in input order
RECURSIVE SatisfyingValues(_, _, _, _)
SatisfyingValues(values, xs, op, literal) ==
    IF values = <<>> THEN <<>>
    ELSE (IF Satisfies(Head(xs), op, literal) THEN <<Head(values)>> ELSE <<>>)
         \o SatisfyingValues(Tail(values), Tail(xs), op, literal)

\* C29: Filter::eval_block with the predicate "col OP literal" returns
\* exactly the input rows whose col value satisfies OP against the literal,
\* in input order and with the input's columns; a row whose col value is
\* null is never kept, whatever OP is.
C29_FilterKeepsSatisfyingRows ==
    (f_out.kind = "Ok" /\ f_in.expr.some) =>
        LET op == f_in.expr.words[2]
            literal == f_in.expr.words[3]
            xs == f_in.batch[1].values
        IN  f_out.batch =
                [c \in DOMAIN f_in.batch |->
                    [name |-> f_in.batch[c].name,
                     values |-> SatisfyingValues(f_in.batch[c].values, xs, op, literal)]]

\* rows j and i of the window input are in one partition: their values of
\* the partition columns are equal
SamePartition(j, i) ==
    j = i \/ key_eq(window_key(w_in.batch, w_in.partitions, j),
                    window_key(w_in.batch, w_in.partitions, i))

\* row j comes before row i in order_by order, input order deciding ties
OrderedBefore(j, i) ==
    LET c == window_tuple_cmp(window_key(w_in.batch, w_in.order_by, j),
                              window_key(w_in.batch, w_in.order_by, i))
    IN  c < 0 \/ (c = 0 /\ j < i)

\* the rows of the partition of row i up to and including it
UpTo(i) ==
    {j \in 1..num_rows(w_in.batch) : SamePartition(j, i) /\ (j = i \/ OrderedBefore(j, i))}

\* the total of the column over a set of rows
RECURSIVE TotalOver(_, _)
TotalOver(values, rows) ==
    IF rows = {} THEN 0
    ELSE LET r == CHOOSE r \in rows : TRUE
         IN  value_as_f64(values[r]) + TotalOver(values, rows \ {r})

\* C30: WindowOp::eval_block keeps the input rows in input order and
\* appends one column per function; RowNumber of a row is its 1-based
\* position within its partition in order_by order, Sum the running total of
\* the column over the rows of its partition up to and including it; both
\* start again at every partition boundary.
C30_WindowPerPartition ==
    w_out.kind = "Ok" =>
        /\ Len(w_out.batch) = Len(w_in.batch) + Len(w_in.functions)
        /\ SubSeq(w_out.batch, 1, Len(w_in.batch)) = w_in.batch
        /\ \A f \in DOMAIN w_in.functions :
              LET col == w_out.batch[Len(w_in.batch) + f]
              IN  /\ col.name = w_in.functions[f].alias
                  /\ Len(col.values) = num_rows(w_in.batch)
                  /\ \A i \in 1..num_rows(w_in.batch) :
                        col.values[i] =
                            IF w_in.functions[f].kind = "RowNumber"
                            THEN ScalarI64(Cardinality(UpTo(i)))
                            ELSE ScalarF64(TotalOver(
                                     w_in.batch[name_to_index(w_in.batch,
                                                    w_in.functions[f].column)].values,
                                     UpTo(i)))

\* ------------------------------------------------------------------------
\* Part XII: properties of LateralExplodeOp
\* ------------------------------------------------------------------------
\* the input batch and the returned batch of the call
ExplodeInput == x_in.inputs[1]

ExplodeOutput == x_out.batch

\* the target value of a row of the input
TargetValue(row) == ExplodeInput[name_to_index(ExplodeInput, x_in.op.column)].values[row]

\* the tokens of a target value; null_once: a null gives the one empty token
RowTokens(value, null_once) ==
    IF null_once /\ value.tag = "Null" THEN <<<<>>>>
    ELSE str_split(scalar_to_string(value), x_in.op.delimiter)

\* the output rows for the input rows from row on: for each row in order and
\* each of its tokens in order, the values of the row followed by the token
RECURSIVE ExpectedRows(_, _)
ExpectedRows(row, null_once) ==
    IF row > num_rows(ExplodeInput) THEN <<>>
    ELSE LET tokens == RowTokens(TargetValue(row), null_once)
         IN  [k \in 1..Len(tokens) |->
                 [c \in 1..(Len(ExplodeInput) + 1) |->
                     IF c <= Len(ExplodeInput) THEN ExplodeInput[c].values[row]
                     ELSE ScalarStr(tokens[k])]]
             \o ExpectedRows(row + 1, null_once)

\* the sum of the token counts of the rows from row on
RECURSIVE TokenTotal(_, _)
TokenTotal(row, null_once) ==
    IF row > num_rows(ExplodeInput) THEN 0
    ELSE Len(RowTokens(TargetValue(row), null_once)) + TokenTotal(row + 1, null_once)

\* tokens joined by the delimiter
RECURSIVE Joined(_, _)
Joined(tokens, delimiter) ==
    IF Len(tokens) = 1 THEN tokens[1]
    ELSE tokens[1] \o delimiter \o Joined(Tail(tokens), delimiter)

\* the returned batch is the input columns and the alias column, of one
\* length, holding the expected rows
EmitsExpectedRows(null_once) ==
    /\ Len(ExplodeOutput) = Len(ExplodeInput) + 1
    /\ \A c \in DOMAIN ExplodeInput : ExplodeOutput[c].name = ExplodeInput[c].name
    /\ ExplodeOutput[Len(ExplodeOutput)].name = x_in.op.alias
    /\ \A c \in DOMAIN ExplodeOutput :
           Len(ExplodeOutput[c].values) = TokenTotal(1, null_once)
    /\ [k \in 1..TokenTotal(1, null_once) |->
           [c \in DOMAIN ExplodeOutput |-> ExplodeOutput[c].values[k]]]
       = ExpectedRows(1, null_once)

\* C31, as stated: a batch returned by LateralExplodeOp::eval_block holds,
\* for each input row in order, one row per token of the target value split
\* by the delimiter, a null target giving one row with an empty token; each
\* row copies the input row and ends with the token, and the row count is
\* the sum of the token counts
C31_OneRowPerTokenNullOnce == x_out.kind = "Ok" => EmitsExpectedRows(TRUE)

\* C31, amended: as above, a null target being split like the empty string
\* (one empty token for a delimiter that is not empty, two for the empty
\* delimiter); the tokens of a row joined by the delimiter give the target
\* value as a string
C31_OneRowPerToken ==
    x_out.kind = "Ok" =>
        /\ EmitsExpectedRows(FALSE)
        /\ \A row \in 1..num_rows(ExplodeInput) :
               Joined(RowTokens(TargetValue(row), FALSE), x_in.op.delimiter)
               = scalar_to_string(TargetValue(row))

\* a batch of two columns was exploded: a row of two tokens, then a null row
C31_Witness ==
    /\ x_out.kind = "Ok"
    /\ Len(ExplodeInput) = 2
    /\ num_rows(ExplodeInput) = 2
    /\ Len(RowTokens(TargetValue(1), FALSE)) = 2
    /\ TargetValue(2) = ScalarNull
    /\ num_rows(ExplodeOutput) = 3

\* ------------------------------------------------------------------------
\* Part XIII: properties of the frontier tracker
\* ------------------------------------------------------------------------
\* the blocks alive once the k-th step of the walk is over: the block of
\* that step, and every block executed before it that has a dependent not
\* executed yet
AliveAfter(k) ==
    {yielded[k]} \cup
    {yielded[j] : j \in {i \in 1..(k - 1) :
        \E e \in DOMAIN edges :
            /\ edges[e][1] = yielded[i]
            /\ \A m \in 1..k : yielded[m] # edges[e][2]}}

\* the largest number of blocks alive at a point of the walk
MaxAlive ==
    IF yielded = <<>> THEN 0
    ELSE LET sizes == {Cardinality(AliveAfter(k)) : k \in DOMAIN yielded}
         IN  CHOOSE n \in sizes : \A m \in sizes : m <= n

\* the order is topological: every dependency of a block precedes it
TopologicalOrder ==
    \A i \in DOMAIN tracker.forder :
        \A k \in DOMAIN tracker.forder[i] : tracker.forder[i][k] < i

\* C32: what compute_max_frontier returns for a topological order is the
\* largest number of blocks alive at a point of the ready-queue walk, a
\* block being alive from the step that executes it until all its
\* dependents have been executed
C32_MaxFrontierIsMaxAlive ==
    tracker.cmf >= 0 /\ TopologicalOrder => tracker.cmf = MaxAlive

\* v can be reached from u by a path of at least one and at most n edges
RECURSIVE Reaches(_, _, _)
Reaches(u, v, n) ==
    /\ n > 0
    /\ \E e \in DOMAIN edges :
           /\ edges[e][1] = u
           /\ edges[e][2] = v \/ Reaches(edges[e][2], v, n - 1)

Acyclic == \A b \in edge_blocks(edges) : ~Reaches(b, b, Cardinality(edge_blocks(edges)))

\* the position of a block in the list of yielded blocks, 0 for none
YieldedAt(b) ==
    IF \E k \in DOMAIN yielded : yielded[k] = b
    THEN CHOOSE k \in DOMAIN yielded : yielded[k] = b
    ELSE 0

\* C39: for an acyclic edge set no block is yielded twice or before one of
\* its dependencies; once step has returned None every block of an edge has
\* been yielded and max_depth is the number of those blocks
C39_TopologicalWalk ==
    tracker.fpc # "start" /\ Acyclic =>
        /\ \A i, j \in DOMAIN yielded : yielded[i] = yielded[j] => i = j
        /\ \A e \in DOMAIN edges :
               YieldedAt(edges[e][2]) > 0 =>
                   /\ YieldedAt(edges[e][1]) > 0
                   /\ YieldedAt(edges[e][1]) < YieldedAt(edges[e][2])
        /\ ready = <<>> =>
               /\ {yielded[k] : k \in DOMAIN yielded} = edge_blocks(edges)
               /\ depth = Cardinality(edge_blocks(edges))

\* step has returned None after a walk over three blocks, one of them with
\* two dependencies
C39_Witness ==
    /\ tracker.fpc \in {"none", "returned"}
    /\ Acyclic
    /\ Len(yielded) = 3
    /\ \E b \in edge_blocks(edges) :
           Cardinality({edges[e][1] : e \in {k \in DOMAIN edges : edges[k][2] = b}}) = 2

\* ------------------------------------------------------------------------
\* Part XIV: properties of Storage::read_range
\* ------------------------------------------------------------------------
\* C33: read_range of FsStorage and of MemoryStorage returns an error or
\* exactly len bytes, never a shorter result
C33_ExactlyLenOrError ==
    rr_out.kind # "none" =>
        \/ rr_out.kind = "Err"
        \/ rr_out.kind = "Ok" /\ Len(rr_out.bytes) = rr_in.len

\* ------------------------------------------------------------------------
\* Part XV: properties of SpillManager.segments and its storage
\* ------------------------------------------------------------------------
\* C37: after any sequence of write_batch and delete_segment calls, with
\* storage writes and deletes that may fail, every name list_segments returns
\* has its bytes in storage at the recorded path and they match the recorded
\* checksum
C37_ListedSegmentsStored ==
    \A n \in SpillManager_list_segments :
        /\ spill_dir.files[n].present
        /\ blake3(spill_dir.files[n]) = spill_dir.segments[n].checksum

====
